---- MODULE Spec2Model ----
(***************************************************************************)
(* The SCP session negotiation of eye-spy: two ScpListener workers         *)
(* (scp-client/src/scp_listener.rs), each driven by its ScpClient facade   *)
(* (scp-client/src/client.rs) through the action and event slots, and a    *)
(* third endpoint that dials the two listeners with arbitrary payloads.    *)
(* Beside it, two components that are functions of their input alone: the  *)
(* SCPMessage codec (scp-client/src/scp.rs) and the NalBuilder that        *)
(* reassembles a NAL unit from UDP datagrams (h264_stream.rs).  Each has   *)
(* its own specification over its own variables.                           *)
(***************************************************************************)
EXTENDS Integers, Sequences, FiniteSets, TLC

VARIABLES
    state,              \* ScpListener.state
    communicating_with, \* ScpListener.communicating_with (NoAddr = None)
    got_preferences,    \* ScpListener.got_preferences (NoPrefs = None)
    alive,              \* the worker thread: "running", "panicked", "terminated"
    phase,              \* position in handle_event_loop (see handle_action)
    action,             \* the action slot (ScpClient.tx), NoAction = None
    taken,              \* the action handle_action has cloned and taken from the slot
    staged,             \* what a handler that has written still has to store
    event,              \* the event slot (ScpClient.rx), NoEvent = None
    inbox,              \* connections queued on the worker's TcpListener
    pc,                 \* the facade's caller: "idle", "request_chat", "accept", "dropped"
    result,             \* what the last returned facade call returned
    calls,              \* history: the facade calls made so far, in order
    injected,           \* history: number of connections the third endpoint has made
    last,               \* history: what the worker's latest handler did
    neg,                \* history: what has happened in the current negotiation
    peers_seen,         \* history: the IPs that have been the worker's peer
    message,            \* codec: the SCPMessage built by SCPMessage::new
    wire,               \* codec: the bytes handed to SCPMessage::deserialize
    parsed,             \* codec: what deserialize returned for wire
    nal,                \* the NalBuilder
    fed,                \* history: the datagrams given to the NalBuilder so far
    gap,                \* history: the latest skipped identifier and what followed it
    udp,                \* the video datagrams sent and not yet delivered or lost
    sent_units,         \* history: the NAL units the sender has fragmented, in order
    rx,                 \* history: what the receiver has been delivered
    signal,             \* outgoing stream: the AtomicU8 shared by controls and worker
    signal_data,        \* outgoing stream: the address in the Mutex<SocketAddr>
    lock,               \* outgoing stream: who holds the signal_data mutex
    ctx,                \* the worker's OutgoingH264StreamContext and its position
    ctl,                \* the owner of the H264StreamControls
    outgoing,           \* history: what the outgoing worker has processed
    in_signal,          \* incoming stream: the AtomicU8 shared by controls and worker
    in_data,            \* incoming stream: the address in the Mutex<SocketAddr>
    conn_status,        \* incoming stream: the AtomicBool read by is_receiving()
    inw,                \* the incoming worker thread: its locals and its position
    in_ctl,             \* the owner of the H264IncomingStreamControls
    rgb_frame_buffer,   \* incoming stream: the RGB_FRAME_BUFFER mutex: "new", "free", "poisoned"
    clock,              \* how long ago last_packet was taken and the last datagram came
    mx                  \* the two slot mutexes, their guards' holders and the two threads

vars == <<state, communicating_with, got_preferences, alive, phase, action, taken, staged, event,
          inbox, pc, result, calls, injected, last, neg, peers_seen,
          message, wire, parsed, nal, fed, gap, udp, sent_units, rx,
          signal, signal_data, lock, ctx, ctl, outgoing,
          in_signal, in_data, conn_status, inw, in_ctl, rgb_frame_buffer, clock, mx>>

mutex_vars == <<mx>>
scp_slots == <<state, communicating_with, got_preferences, alive, phase, action, taken, staged, event,
               inbox, pc, result, calls, injected, last, neg, peers_seen>>
scp_vars == <<scp_slots, mutex_vars>>
codec_vars == <<message, wire, parsed>>
nal_vars == <<nal, fed, gap>>
stream_vars == <<udp, sent_units, rx>>
out_vars == <<signal, signal_data, lock, ctx, ctl, outgoing>>
in_vars == <<in_signal, in_data, conn_status, inw, in_ctl, rgb_frame_buffer, clock>>
video_vars == <<stream_vars, out_vars, in_vars>>

-----------------------------------------------------------------------------
(* Bounds of the model *)

MaxCalls == 2      \* facade operations (calls and drops) in one behaviour
MaxInject == 1     \* connections made by the third endpoint in one behaviour
MaxBody == 2       \* free bytes in the body of a message given to SCPMessage::new
MaxMiddle == 4     \* free bytes between the two ends of an input of deserialize
MaxData == 2       \* data bytes in one video datagram (504 in the sender)
MaxIdent == 3      \* largest packet identifier of a video datagram
BufferLen == 4     \* length of nal_unit_buffer (65535 in the source), scaled down
MaxUnits == 2      \* NAL units fragmented by the sender in one behaviour
MaxUnitLen == 3    \* bytes in one NAL unit of the sender
MaxCtl == 3        \* calls on a stream's controls in one behaviour
MaxTime == 8       \* seconds without a datagram that a behaviour goes on for

-----------------------------------------------------------------------------
(* Endpoints, addresses, preferences *)

Workers == {"A", "B"}
Third == "C"
Endpoints == Workers \cup {Third}

PortA == 60102
PortB == 60103
DefaultPortScp == 60201
DefaultPortVideo == 7000
DefaultPortAudio == 7001
\* a port with no TCP listener behind it: the peer's UDP video port
ClosedPort == DefaultPortVideo

\* the port the endpoint's TcpListener is bound to (Preferences.port_scp)
PortOf(e) == CASE e = "A" -> PortA
               [] e = "B" -> PortB
               [] OTHER -> DefaultPortScp

NoAddr == [ip |-> "none", port |-> 0]
Addr(e, p) == [ip |-> e, port |-> p]
ListenAddr(e) == Addr(e, PortOf(e))

NoPrefs == [port_in_video |-> 0, port_in_audio |-> 0, port_scp |-> 0]
Preferences(e) == [port_in_video |-> DefaultPortVideo,
                   port_in_audio |-> DefaultPortAudio,
                   port_scp |-> PortOf(e)]

\* u16::to_le_bytes and u16::from_le_bytes
to_le_bytes(n) == <<n % 256, (n \div 256) % 256>>
from_le_bytes(b) == b[1] + 256 * b[2]

-----------------------------------------------------------------------------
(* SCP messages as the listener sees them after the read.  cmd "Garbage"   *)
(* is a payload ScpMessage::deserialize rejects, "Empty" a connection that *)
(* closes without sending a byte, "Todo" any of the commands whose handler *)
(* is todo!().                                                             *)

Msg(cmd, body, prefs) == [cmd |-> cmd, body |-> body, prefs |-> prefs]
StartMsg(port) == Msg("Start", to_le_bytes(port), NoPrefs)
PreferencesShareMsg(e) == Msg("PreferencesShare", <<>>, Preferences(e))
ReadyMsg == Msg("Ready", <<>>, NoPrefs)
EndMsg == Msg("End", <<>>, NoPrefs)

\* what the third endpoint may send
ThirdPayloads ==
    { StartMsg(PortOf(Third)),                 \* a well-formed Start
      StartMsg(ClosedPort),                    \* Start naming a port nobody listens on
      Msg("Start", <<76>>, NoPrefs),           \* Start with a one-byte body (b"L")
      PreferencesShareMsg(Third),
      Msg("PreferencesShare", <<>>, NoPrefs),  \* body that is not a Preferences record
      ReadyMsg,
      EndMsg,
      Msg("Todo", <<>>, NoPrefs),
      Msg("Garbage", <<>>, NoPrefs),
      Msg("Empty", <<>>, NoPrefs) }

-----------------------------------------------------------------------------
(* Slots *)

NoAction == [kind |-> "None", dest |-> NoAddr]
AttemptConnection(dest) == [kind |-> "AttemptConnection", dest |-> dest]
RefuseConnection == [kind |-> "RefuseConnection", dest |-> NoAddr]
AcceptConnection == [kind |-> "AcceptConnection", dest |-> NoAddr]
EndConnection == [kind |-> "EndConnection", dest |-> NoAddr]
Terminate == [kind |-> "Terminate", dest |-> NoAddr]

NoEvent == [kind |-> "None", err |-> "none", ip |-> "none", stream_config |-> NoPrefs]
ConnectionEstablished(ip, cfg) ==
    [kind |-> "ConnectionEstablished", err |-> "none", ip |-> ip, stream_config |-> cfg]
ConnectionFailed(e) ==
    [kind |-> "ConnectionFailed", err |-> e, ip |-> "none", stream_config |-> NoPrefs]
ConnectionEnd ==
    [kind |-> "ConnectionEnd", err |-> "none", ip |-> "none", stream_config |-> NoPrefs]

NoResult == [ok |-> "none", err |-> "none", ip |-> "none", stream_config |-> NoPrefs]
Ok(ev) == [ok |-> "Ok", err |-> "none", ip |-> ev.ip, stream_config |-> ev.stream_config]
Err(e) == [ok |-> "Err", err |-> e, ip |-> "none", stream_config |-> NoPrefs]

NoNeg == [fresh |-> FALSE, shared |-> FALSE, ready |-> FALSE]
NoLast == [how |-> "none", what |-> "none", sent |-> <<>>, reply |-> "none",
           finalized |-> FALSE, crossed |-> "none"]

-----------------------------------------------------------------------------
(* The network: TcpStream::connect succeeds iff a listener is bound there. *)
(* A worker's listener lives in its thread and closes when the thread      *)
(* ends; the third endpoint always listens on its port.                    *)

Listening(addr) ==
    /\ addr.ip \in Endpoints
    /\ addr.port = PortOf(addr.ip)
    /\ addr.ip \in Workers => alive[addr.ip] = "running"

-----------------------------------------------------------------------------
(* The ScpListener's handlers, as functions on the worker's local state    *)
(*   L = [state, cw, gp, ev, alive, out, neg, fin]                         *)
(* cw = communicating_with, gp = got_preferences, ev = the event slot,     *)
(* out = the messages written to outbound connections, in order.           *)
(* A handler that panics leaves alive = "panicked"; whatever follows it in *)
(* the same call chain does not run.                                       *)

Local(w) == [state |-> state[w], cw |-> communicating_with[w],
             gp |-> got_preferences[w], ev |-> event[w], alive |-> alive[w],
             out |-> <<>>, neg |-> neg[w], fin |-> FALSE, stores |-> FALSE]

Unstaged == [out |-> <<>>]

Panic(L) == [L EXCEPT !.alive = "panicked"]
Send(L, to, m) == [L EXCEPT !.out = Append(@, [to |-> to, msg |-> m])]

end_connection(L) ==
    IF L.alive # "running" THEN L
    ELSE IF L.cw # NoAddr /\ Listening(L.cw) THEN Send(L, L.cw, EndMsg)
    ELSE L

notify_end_connection(L) ==
    IF L.alive # "running" THEN L
    ELSE [L EXCEPT !.ev = ConnectionEnd, !.stores = TRUE,
                   !.cw = NoAddr, !.gp = NoPrefs, !.neg = NoNeg]

share_config(self, L) ==
    IF L.alive # "running" THEN L
    ELSE IF L.cw = NoAddr THEN L
    ELSE IF ~Listening(L.cw) THEN Panic(L)
    ELSE [Send(L, L.cw, PreferencesShareMsg(self)) EXCEPT
             !.state = "ConfigShared", !.neg.shared = TRUE]

finalize_connection(L) ==
    IF L.alive # "running" THEN L
    ELSE IF L.cw = NoAddr \/ L.gp = NoPrefs THEN Panic(L)
    ELSE [L EXCEPT !.ev = ConnectionEstablished(L.cw.ip, L.gp), !.stores = TRUE,
                   !.state = "Connected", !.fin = TRUE]

on_attempt_connection_action(self, L, settings) ==
    IF L.state = "Connected"
    THEN [L EXCEPT !.ev = ConnectionFailed("AlreadyConnected"), !.stores = TRUE]
    ELSE IF ~Listening(settings.dest) THEN Panic(L)
    ELSE [Send(L, settings.dest, StartMsg(PortOf(self))) EXCEPT
             !.cw = settings.dest, !.state = "Handshake", !.neg = NoNeg]

\* init_connection: the End to the peer of a negotiation under way
init_connection_end(L) == IF L.state # "Free" THEN end_connection(L) ELSE L

\* init_connection after it: the new peer is recorded and our configuration shared
init_connection_share(self, L1, msg, addr_in) ==
    IF Len(msg.body) >= 2
    THEN LET port == from_le_bytes(SubSeq(msg.body, 1, 2))
             L2 == [L1 EXCEPT !.cw = Addr(addr_in, port), !.neg = NoNeg]
             L3 == share_config(self, L2)
         IN  IF L3.alive # "running" THEN L3
             ELSE [L3 EXCEPT !.state = "ConfigShared"]
    ELSE L1

init_connection(self, L, msg, addr_in) ==
    init_connection_share(self, init_connection_end(L), msg, addr_in)

on_preferences_share(self, L, msg, addr_in) ==
    IF msg.prefs # NoPrefs
    THEN LET L1 == [L EXCEPT !.gp = msg.prefs, !.neg.fresh = (L.cw.ip = addr_in)] IN
         CASE L1.state = "Handshake" -> share_config(self, L1)
           [] L1.state = "ConfigShared" ->
                IF L1.cw = NoAddr \/ ~Listening(L1.cw) THEN Panic(L1)
                ELSE [Send(L1, L1.cw, ReadyMsg) EXCEPT
                         !.state = "Awaiting", !.neg.ready = TRUE]
           [] L1.state = "Awaiting" -> finalize_connection(L1)
           [] OTHER -> L1
    ELSE end_connection(L)

handle_scp_message(self, L, msg, addr_in) ==
    CASE msg.cmd = "Start" -> init_connection(self, L, msg, addr_in)
      [] msg.cmd = "PreferencesShare" -> on_preferences_share(self, L, msg, addr_in)
      [] msg.cmd = "Ready" ->
            finalize_connection([L EXCEPT !.neg.ready = @ \/ (L.cw.ip = addr_in)])
      [] msg.cmd = "End" -> notify_end_connection(L)
      [] OTHER -> Panic(L)     \* todo!()

-----------------------------------------------------------------------------
(* Writing a handler's outcome back: the worker's fields, the event slot,  *)
(* and each written message queued on its destination's listener.          *)

Delivered(self, out, v) ==
    LET mine == SelectSeq(out, LAMBDA o : o.to.ip = v)
    IN  [i \in 1..Len(mine) |-> [src |-> self, msg |-> mine[i].msg, open |-> FALSE]]

Store(self, L, how, what, reply) ==
    /\ state' = [state EXCEPT ![self] = L.state]
    /\ communicating_with' = [communicating_with EXCEPT ![self] = L.cw]
    /\ got_preferences' = [got_preferences EXCEPT ![self] = L.gp]
    /\ alive' = [alive EXCEPT ![self] = L.alive]
    /\ event' = [event EXCEPT ![self] = L.ev]
    /\ neg' = [neg EXCEPT ![self] = L.neg]
    /\ peers_seen' = [peers_seen EXCEPT ![self] =
                         IF L.cw = NoAddr THEN @ ELSE @ \cup {L.cw.ip}]
    /\ last' = [last EXCEPT ![self] =
                   [how |-> how, what |-> what, sent |-> L.out, reply |-> reply,
                    finalized |-> L.fin,
                    \* history: the peer whose Start was handled in Handshake
                    crossed |-> IF how = "recv" /\ what = "Start"
                                   /\ state[self] = "Handshake"
                                THEN Head(inbox[self]).src
                                ELSE last[self].crossed]]

Written(self, L, rest) ==
    inbox' = [v \in Workers |->
                 (IF v = self THEN rest ELSE inbox[v]) \o Delivered(self, L.out, v)]

Commit(self, L, how, what, reply, rest) ==
    /\ Store(self, L, how, what, reply)
    /\ Written(self, L, rest)

-----------------------------------------------------------------------------
(* handle_event_loop: handle_action, then handle_connection, then sleep.   *)
(* phase is the worker's position: "action" before handle_action locks the *)
(* action slot, "match" once it has taken an action and dropped the guard, *)
(* "publish" when a handler is at the lock of the event slot,             *)
(* "write" between the two connections init_connection makes,             *)
(* "connection" before tcp_listener.accept, "read" inside read_to_end on   *)
(* the connection it has accepted (the head of inbox).                     *)

\* handle_action to drop(action): lock the slot, return on None, clone and take
handle_action(self) ==
    /\ alive[self] = "running"
    /\ phase[self] = "action"
    /\ IF action[self] = NoAction
       THEN /\ phase' = [phase EXCEPT ![self] = "connection"]
            /\ UNCHANGED <<action, taken>>
       ELSE /\ phase' = [phase EXCEPT ![self] = "match"]
            /\ taken' = [taken EXCEPT ![self] = action[self]]
            /\ action' = [action EXCEPT ![self] = NoAction]
    /\ UNCHANGED <<state, communicating_with, got_preferences, alive,
                   event, inbox, staged, last, neg, peers_seen>>
    /\ UNCHANGED <<pc, result, calls, injected>>
    /\ UNCHANGED <<mutex_vars, codec_vars, nal_vars, video_vars>>

\* handle_action from the match on the cloned action: the handler runs with
\* no guard held; SetPassword and UnsetPassword are todo!().  A handler that
\* stores an event has made its writes to the peer here and is then at the
\* lock of the event slot, which it gets in handle_action_publish.
matched(self, L0, cloned) ==
    CASE cloned.kind = "AttemptConnection" ->
            on_attempt_connection_action(self, L0, cloned)
      [] cloned.kind \in {"RefuseConnection", "EndConnection"} ->
            end_connection(L0)
      [] cloned.kind = "AcceptConnection" ->
            IF L0.cw # NoAddr
            THEN finalize_connection(share_config(self, L0))
            ELSE L0
      [] cloned.kind = "Terminate" ->
            [end_connection(L0) EXCEPT
                !.ev = NoEvent, !.stores = TRUE, !.alive = "terminated"]
      [] cloned.kind \in {"SetPassword", "UnsetPassword"} -> Panic(L0)   \* todo!()
      [] OTHER -> Panic(L0)

handle_action_match(self) ==
    /\ alive[self] = "running"
    /\ phase[self] = "match"
    /\ LET L == matched(self, Local(self), taken[self])
       IN  IF L.stores
           THEN /\ phase' = [phase EXCEPT ![self] = "publish"]
                /\ staged' = [staged EXCEPT ![self] = L]
                /\ Written(self, L, inbox[self])
                /\ UNCHANGED <<state, communicating_with, got_preferences, alive,
                               event, taken, last, neg, peers_seen>>
           ELSE /\ phase' = [phase EXCEPT ![self] = "connection"]
                /\ taken' = [taken EXCEPT ![self] = NoAction]
                /\ Commit(self, L, "action", taken[self].kind, "none", inbox[self])
                /\ UNCHANGED staged
    /\ UNCHANGED <<action, pc, result, calls, injected>>
    /\ UNCHANGED <<mutex_vars, codec_vars, nal_vars, video_vars>>

\* the end of such a handler: the event slot is locked and stored
\* (on_attempt_connection_action, finalize_connection, or the Terminate arm,
\* which then leaves the loop)
handle_action_publish(self) ==
    /\ alive[self] = "running"
    /\ phase[self] = "publish"
    /\ taken[self] # NoAction
    /\ phase' = [phase EXCEPT ![self] = "connection"]
    /\ taken' = [taken EXCEPT ![self] = NoAction]
    /\ staged' = [staged EXCEPT ![self] = Unstaged]
    /\ Store(self, staged[self], "action", taken[self].kind, "none")
    /\ UNCHANGED <<action, inbox, pc, result, calls, injected>>
    /\ UNCHANGED <<mutex_vars, codec_vars, nal_vars, video_vars>>

\* the connection is from somewhere other than the peer we are busy with
Busy(self, addr_in) ==
    /\ state[self] # "Free"
    /\ communicating_with[self] # NoAddr
    /\ communicating_with[self].ip # addr_in

\* handle_connection to the read: accept on the nonblocking listener, and
\* the End written to a connection from somewhere else while busy
handle_connection(self) ==
    /\ alive[self] = "running"
    /\ phase[self] = "connection"
    /\ IF inbox[self] = <<>>
       THEN /\ phase' = [phase EXCEPT ![self] = "action"]
            /\ UNCHANGED <<state, communicating_with, got_preferences, alive,
                           event, inbox, last, neg, peers_seen>>
       ELSE IF Busy(self, Head(inbox[self]).src)
       THEN /\ phase' = [phase EXCEPT ![self] = "action"]
            /\ Commit(self, Local(self), "busy", Head(inbox[self]).msg.cmd, "End",
                      Tail(inbox[self]))
       ELSE /\ phase' = [phase EXCEPT ![self] = "read"]
            /\ UNCHANGED <<state, communicating_with, got_preferences, alive,
                           event, inbox, last, neg, peers_seen>>
    /\ UNCHANGED <<action, taken, staged, pc, result, calls, injected>>
    /\ UNCHANGED <<mutex_vars, codec_vars, nal_vars, video_vars>>

\* handle_connection from the read: read_to_end on the accepted stream returns
\* when the peer has closed its side; then deserialize and handle_scp_message.
\* A handler that stores an event (notify_end_connection, finalize_connection)
\* is then at the lock of the event slot; the connection stays at the head
\* of inbox until handle_connection_publish.  A Start handled outside Free
\* makes two connections, End to the old peer and PreferencesShare to the
\* new one: the first is made here, the second in handle_connection_write.
handle_connection_read(self) ==
    /\ alive[self] = "running"
    /\ phase[self] = "read"
    /\ ~Head(inbox[self]).open
    /\ LET conn == Head(inbox[self])
           L0 == Local(self)
           L == IF conn.msg.cmd = "Empty" THEN L0
                ELSE IF conn.msg.cmd = "Garbage" THEN Panic(L0)
                ELSE handle_scp_message(self, L0, conn.msg, conn.src)
           L1 == init_connection_end(L0)
       IN  IF conn.msg.cmd = "Start" /\ L1.out # <<>> /\ Len(conn.msg.body) >= 2
           THEN /\ phase' = [phase EXCEPT ![self] = "write"]
                /\ staged' = [staged EXCEPT ![self] = L1]
                /\ Written(self, L1, inbox[self])
                /\ UNCHANGED <<state, communicating_with, got_preferences, alive,
                               event, last, neg, peers_seen>>
           ELSE IF L.stores
           THEN /\ phase' = [phase EXCEPT ![self] = "publish"]
                /\ staged' = [staged EXCEPT ![self] = L]
                /\ Written(self, L, inbox[self])
                /\ UNCHANGED <<state, communicating_with, got_preferences, alive,
                               event, last, neg, peers_seen>>
           ELSE /\ phase' = [phase EXCEPT ![self] = "action"]
                /\ Commit(self, L, "recv", conn.msg.cmd, "none", Tail(inbox[self]))
                /\ UNCHANGED staged
    /\ UNCHANGED <<action, taken, pc, result, calls, injected>>
    /\ UNCHANGED <<mutex_vars, codec_vars, nal_vars, video_vars>>

\* init_connection after its End has been written: the second connection,
\* to the new peer, is made now (share_config)
handle_connection_write(self) ==
    /\ alive[self] = "running"
    /\ phase[self] = "write"
    /\ phase' = [phase EXCEPT ![self] = "action"]
    /\ staged' = [staged EXCEPT ![self] = Unstaged]
    /\ LET conn == Head(inbox[self])
           L == init_connection_share(self, staged[self], conn.msg, conn.src)
       IN  /\ Store(self, L, "recv", conn.msg.cmd, "none")
           /\ Written(self, [L EXCEPT !.out = Tail(@)], Tail(inbox[self]))
    /\ UNCHANGED <<action, taken, pc, result, calls, injected>>
    /\ UNCHANGED <<mutex_vars, codec_vars, nal_vars, video_vars>>

\* the end of such a handler: the event slot is locked and stored
handle_connection_publish(self) ==
    /\ alive[self] = "running"
    /\ phase[self] = "publish"
    /\ taken[self] = NoAction
    /\ phase' = [phase EXCEPT ![self] = "action"]
    /\ staged' = [staged EXCEPT ![self] = Unstaged]
    /\ Store(self, staged[self], "recv", Head(inbox[self]).msg.cmd, "none")
    /\ inbox' = [inbox EXCEPT ![self] = Tail(@)]
    /\ UNCHANGED <<action, taken, pc, result, calls, injected>>
    /\ UNCHANGED <<mutex_vars, codec_vars, nal_vars, video_vars>>

-----------------------------------------------------------------------------
(* The ScpClient facade.  A call publishes its action and then polls the   *)
(* event slot; the first poll may come before the worker has seen the      *)
(* action.  The poll loop keeps the guard of the event mutex through each  *)
(* 100 ms sleep and takes it again at once, so a worker that has an event  *)
(* to store waits at the lock and gets it only by chance.  The 3 s and 5 s *)
(* timeouts are a wall-clock test; they are long against the 30 ms tick    *)
(* and the 1 s connect, so a call times out when its worker is gone, when  *)
(* a worker is held in read_to_end by a peer that keeps its connection     *)
(* open, when a worker waits at the event mutex of a polling facade, or    *)
(* when no worker has anything left to do.                                 *)

\* worker v is inside read_to_end on a connection its peer has not closed
Held(v) ==
    /\ alive[v] = "running"
    /\ phase[v] = "read"
    /\ Head(inbox[v]).open

\* worker v waits at the lock of the event slot while its facade polls
Blocked(v) ==
    /\ alive[v] = "running"
    /\ phase[v] = "publish"
    /\ pc[v] \in {"request_chat", "accept"}

\* worker v is between handlers with nothing to take and nothing to accept
Idle(v) ==
    /\ phase[v] \in {"action", "connection"}
    /\ action[v] = NoAction
    /\ inbox[v] = <<>>

Quiescent ==
    \A v \in Workers : alive[v] = "running" => Idle(v)

TimeElapses(self) ==
    \/ alive[self] # "running"
    \/ Held(self)
    \/ Blocked(self)
    \/ \A v \in Workers : alive[v] = "running" => Idle(v) \/ Held(v) \/ Blocked(v)

Call(self, op, dest) ==
    [who |-> self, op |-> op, dest |-> dest, st |-> state[self]]

Destinations(self) ==
    {ListenAddr(e) : e \in Endpoints \ {self}} \cup {Addr(Third, ClosedPort)}

FacadeUnchanged ==
    UNCHANGED <<state, communicating_with, got_preferences, alive, phase, taken,
                staged, event, inbox, injected, last, neg, peers_seen, mutex_vars, codec_vars, nal_vars,
                video_vars>>

request_chat(self, destination) ==
    /\ pc[self] = "idle"
    /\ Len(calls) < MaxCalls
    /\ action' = [action EXCEPT ![self] = AttemptConnection(destination)]
    /\ pc' = [pc EXCEPT ![self] = "request_chat"]
    /\ calls' = Append(calls, Call(self, "request_chat", destination))
    /\ UNCHANGED result
    /\ FacadeUnchanged

\* the poll loop and its exits; the listener never publishes ConnectionIncoming,
\* so the loop's break arm is not taken and running out of time gives Refused
request_chat_return(self) ==
    /\ pc[self] = "request_chat"
    /\ \/ /\ event[self].kind = "ConnectionEstablished"
          /\ result' = [result EXCEPT ![self] = Ok(event[self])]
       \/ /\ event[self].kind = "ConnectionFailed"
          /\ result' = [result EXCEPT ![self] = Err(event[self].err)]
       \/ /\ event[self].kind = "ConnectionEnd"
          /\ result' = [result EXCEPT ![self] = Err("NotResponding")]
       \/ /\ event[self].kind = "None"
          /\ TimeElapses(self)
          /\ result' = [result EXCEPT ![self] = Err("Refused")]
    /\ pc' = [pc EXCEPT ![self] = "idle"]
    /\ UNCHANGED <<action, calls>>
    /\ FacadeUnchanged

accept_incoming_connection(self) ==
    /\ pc[self] = "idle"
    /\ Len(calls) < MaxCalls
    /\ action' = [action EXCEPT ![self] = AcceptConnection]
    /\ pc' = [pc EXCEPT ![self] = "accept"]
    /\ calls' = Append(calls, Call(self, "accept_incoming_connection", NoAddr))
    /\ UNCHANGED result
    /\ FacadeUnchanged

accept_incoming_connection_return(self) ==
    /\ pc[self] = "accept"
    /\ \/ /\ event[self].kind = "ConnectionEstablished"
          /\ result' = [result EXCEPT ![self] = Ok(event[self])]
       \/ /\ event[self].kind = "ConnectionFailed"
          /\ result' = [result EXCEPT ![self] = Err(event[self].err)]
       \/ /\ event[self].kind \in {"None", "ConnectionEnd"}
          /\ TimeElapses(self)
          /\ result' = [result EXCEPT ![self] = Err("NotResponding")]
    /\ pc' = [pc EXCEPT ![self] = "idle"]
    /\ UNCHANGED <<action, calls>>
    /\ FacadeUnchanged

ScpClient_end_connection(self) ==
    /\ pc[self] = "idle"
    /\ Len(calls) < MaxCalls
    /\ action' = [action EXCEPT ![self] = EndConnection]
    /\ calls' = Append(calls, Call(self, "end_connection", NoAddr))
    /\ UNCHANGED <<pc, result>>
    /\ FacadeUnchanged

\* impl Drop for ScpClient; the worker never panics holding the action lock,
\* so the slot is never poisoned
drop(self) ==
    /\ pc[self] = "idle"
    /\ Len(calls) < MaxCalls
    /\ action' = [action EXCEPT ![self] = Terminate]
    /\ pc' = [pc EXCEPT ![self] = "dropped"]
    /\ calls' = Append(calls, Call(self, "drop", NoAddr))
    /\ UNCHANGED result
    /\ FacadeUnchanged

-----------------------------------------------------------------------------
(* The third endpoint dials a listener and writes one payload; it closes   *)
(* the connection at once or keeps it open and closes it later.            *)

ThirdDials(target, m, open) ==
    /\ injected < MaxInject
    /\ alive[target] = "running"
    /\ inbox' = [inbox EXCEPT ![target] =
                    Append(@, [src |-> Third, msg |-> m, open |-> open])]
    /\ injected' = injected + 1
    /\ UNCHANGED <<state, communicating_with, got_preferences, alive, phase, action,
                   taken, staged, event, pc, result, calls, last, neg, peers_seen>>
    /\ UNCHANGED <<mutex_vars, codec_vars, nal_vars, video_vars>>

ThirdCloses(target) ==
    /\ \E i \in 1..Len(inbox[target]) :
          /\ inbox[target][i].open
          /\ inbox' = [inbox EXCEPT ![target][i].open = FALSE]
    /\ UNCHANGED <<state, communicating_with, got_preferences, alive, phase, action,
                   taken, staged, event, pc, result, calls, injected, last, neg,
                   peers_seen>>
    /\ UNCHANGED <<mutex_vars, codec_vars, nal_vars, video_vars>>

-----------------------------------------------------------------------------
(* The SCPMessage codec of scp-client/src/scp.rs.  A byte is a number in   *)
(* 0..255 and a byte string a sequence of bytes.  A command is its        *)
(* discriminant in the repr(u16) enum SCPCommand.                          *)

SCP_HEADER == <<49, 50, 51, 52, 53, 54, 53, 52, 51, 50, 49, 10>>   \* b"12345654321\n"
SCP_END == <<49, 50, 51, 52, 53, 54, 52, 51, 50, 49, 10>>          \* b"1234564321\n"
Newline == 10                                                        \* b"\n"

Start == 0
OwnKeyRequired == 1
ReqGenerateKey == 2
AckGenerateKey == 3
KeyShare == 4
SimpleMessage == 5
VideoStreamConnect == 6
AudioStreamConnect == 7
VideoStreamStop == 8
AudioStreamStop == 9
End == 10
SCPCommand == Start..End

requires_body_mut(command) == command = SimpleMessage
requires_body(command) == command \in {KeyShare, SimpleMessage}

starts_with(raw, needle) ==
    Len(raw) >= Len(needle) /\ SubSeq(raw, 1, Len(needle)) = needle
ends_with(raw, needle) ==
    Len(raw) >= Len(needle) /\ SubSeq(raw, Len(raw) - Len(needle) + 1, Len(raw)) = needle

NoMessage == [kind |-> "none", command |-> Start, body |-> <<>>]
\* SCPMessage::new panicked on these arguments
InvalidMessage(command, body) == [kind |-> "panic", command |-> command, body |-> body]
SCPMessage(command, body) == [kind |-> "msg", command |-> command, body |-> body]

SCPMessage_new_mut(command, body) == SCPMessage(command, body)
SCPMessage_new(command, body) ==
    IF requires_body(command) /\ body = <<>>
    THEN InvalidMessage(command, body)
    ELSE SCPMessage(command, body)

as_bytes_mut(m) == SCP_HEADER \o to_le_bytes(m.command) \o m.body \o SCP_END
as_bytes(m) ==
    SCP_HEADER \o to_le_bytes(m.command) \o m.body \o <<Newline>> \o SCP_END

NoParse == [kind |-> "none", err |-> "none", command |-> Start, body |-> <<>>]
ParseOk(command, body) == [kind |-> "Ok", err |-> "none", command |-> command, body |-> body]
ParseErr(e) == [kind |-> "Err", err |-> e, command |-> Start, body |-> <<>>]
ParsePanic == [kind |-> "panic", err |-> "none", command |-> Start, body |-> <<>>]

H_LEN == Len(SCP_HEADER)
C_LEN == 2      \* size_of::<SCPCommand>(), a repr(u16) enum

\* the process ended inside deserialize: SIGABRT or SIGSEGV, no Result
ParseAbort == [kind |-> "abort", err |-> "none", command |-> Start, body |-> <<>>]

Transmuted(value) == [aborts |-> FALSE, value |-> value]
TransmuteAbort == [aborts |-> TRUE, value |-> 0]

(* transmute::<[u8; C_LEN], SCPCommand>: the two bytes become the enum's   *)
(* u16 in the byte order of the target, little-endian on the targets of    *)
(* the crate.  A value that is no variant of SCPCommand is undefined       *)
(* behaviour: with debug assertions the validity check aborts the process, *)
(* without them the value goes on as it is or the process crashes later in *)
(* deserialize.                                                            *)
transmute(command_raw) ==
    LET value == from_le_bytes(command_raw)
    IN  IF value \in SCPCommand THEN {Transmuted(value)}
        ELSE {Transmuted(value), TransmuteAbort}

\* deserialize from line 64 on, with the command the transmute has made
deserialize_rest(command, rest) ==
    IF Len(rest) < H_LEN THEN {ParsePanic}
    ELSE LET body_raw == SubSeq(rest, 1, Len(rest) - H_LEN)
             end == SubSeq(rest, Len(rest) - H_LEN + 1, Len(rest))
         IN  IF SubSeq(end, 2, Len(end)) # SCP_END
             THEN {ParseErr("BadStructure")}
             ELSE IF command \in SCPCommand
             THEN IF requires_body(command) /\ body_raw = <<>>
                  THEN {ParseErr("MissingBody")}
                  ELSE {ParseOk(command, body_raw)}
             ELSE {ParseOk(command, body_raw)} \cup
                  (IF body_raw = <<>>
                   THEN {ParseErr("MissingBody")} ELSE {})

(* The outcomes of SCPMessage::deserialize(raw).  There is more than one   *)
(* where the transmute has made a value that is no variant of SCPCommand:  *)
(* the process may end there, and what requires_body() answers for such a  *)
(* value is up to the build.  raw.len() - H_LEN on fewer than H_LEN bytes  *)
(* panics: on the subtraction where overflow is checked, in split_at where *)
(* it wraps.                                                               *)
deserialize(raw) ==
    IF ~starts_with(raw, SCP_HEADER) THEN {ParseErr("BadStructure")}
    ELSE IF ~ends_with(raw, SCP_END) THEN {ParseErr("MissingEnd")}
    ELSE LET after == SubSeq(raw, H_LEN + 1, Len(raw))
         IN  IF Len(after) < C_LEN THEN {ParseErr("MissingCommand")}
             ELSE LET rest == SubSeq(after, C_LEN + 1, Len(after))
                  IN  UNION {IF t.aborts THEN {ParseAbort}
                             ELSE deserialize_rest(t.value, rest) :
                             t \in transmute(SubSeq(after, 1, C_LEN))}

(* The inputs.  Bytes: the low bytes of Start, KeyShare and SimpleMessage, *)
(* the newline, the first index past the enum, and the letter H.           *)
Bytes == {0, 4, 5, 10, 11, 72}
ByteSeqs(n) == UNION {[1..k -> Bytes] : k \in 0..n}
\* what a body or an input may carry around its free bytes
Patterns == {<<>>, SCP_HEADER, SCP_END}
Bodies == {a \o m \o b : a \in Patterns, m \in ByteSeqs(MaxBody), b \in Patterns}
RawInputs == {a \o m \o b : a \in Patterns, m \in ByteSeqs(MaxMiddle), b \in Patterns}

\* a run of the codec starts from nothing built, received or parsed
CodecIdle == message = NoMessage /\ wire = <<>> /\ parsed = NoParse

CodecNew ==
    /\ CodecIdle
    /\ \E command \in SCPCommand : \E body \in Bodies :
          message' = SCPMessage_new(command, body)
    /\ wire' = <<>>
    /\ parsed' = NoParse
    /\ UNCHANGED <<scp_vars, nal_vars, video_vars>>

CodecAsBytes ==
    /\ message.kind = "msg"
    /\ wire = <<>>
    /\ wire' = as_bytes(message)
    /\ UNCHANGED <<message, parsed, scp_vars, nal_vars, video_vars>>

CodecReceive ==
    /\ CodecIdle
    /\ message' = NoMessage
    /\ wire' \in RawInputs
    /\ parsed' = NoParse
    /\ UNCHANGED <<scp_vars, nal_vars, video_vars>>

CodecDeserialize ==
    /\ parsed = NoParse
    /\ message.kind = "none" \/ wire # <<>>
    /\ parsed' \in deserialize(wire)
    /\ UNCHANGED <<message, wire, scp_vars, nal_vars, video_vars>>

InitCodec == CodecIdle

NextCodec ==
    \/ CodecNew
    \/ CodecAsBytes
    \/ CodecReceive
    \/ CodecDeserialize

-----------------------------------------------------------------------------
(* The NalBuilder of h264_stream.rs (mod incoming).  A datagram is a byte  *)
(* string; the builder tells a terminator from a data fragment by the      *)
(* bytes alone.  nal_unit_buffer is a sequence of BufferLen bytes, its     *)
(* Rust index i being position i + 1.                                      *)

FRAME_END == <<49, 49, 49, 49, 49, 49, 49, 49, 49, 49, 49>>    \* b"11111111111"
IdentLen == 4                                                    \* a u32 identifier

u32_to_le_bytes(n) ==
    <<n % 256, (n \div 256) % 256, (n \div (256 * 256)) % 256,
      (n \div (256 * 256 * 256)) % 256>>
u32_from_le_bytes(b) ==
    b[1] + 256 * b[2] + 256 * 256 * b[3] + 256 * 256 * 256 * b[4]

(* impl Default for NalBuilder.  panicked, underflow are history: a call on *)
(* the builder has panicked; ident - 1 - last_packet has been evaluated   *)
(* with a result below zero.                                               *)
NalBuilder_default ==
    [finished |-> FALSE, failed |-> FALSE,
     nal_unit_buffer |-> [i \in 1..BufferLen |-> 0],
     last_packet |-> 0, end_idx |-> 0, last_idx |-> 0, panicked |-> FALSE,
     underflow |-> FALSE]

None == [some |-> FALSE, unit |-> <<>>]
Some(unit) == [some |-> TRUE, unit |-> unit]

get_nal_unit_mut(b) == IF ~b.failed THEN Some(SubSeq(b.nal_unit_buffer, 1, b.end_idx)) ELSE None
get_nal_unit(b) ==
    IF b.finished /\ ~b.failed
    THEN Some(SubSeq(b.nal_unit_buffer, 1, b.end_idx))
    ELSE None

reset(b) ==
    [b EXCEPT !.finished = FALSE, !.failed = FALSE, !.last_packet = 0,
              !.end_idx = 0, !.last_idx = 0]

decode_frame(data) ==
    IF Len(data) > IdentLen
    THEN [ok |-> TRUE, data |-> SubSeq(data, 1, Len(data) - IdentLen),
          ident |-> u32_from_le_bytes(SubSeq(data, Len(data) - IdentLen + 1, Len(data)))]
    ELSE [ok |-> FALSE, data |-> <<>>, ident |-> 0]

(* The outcomes of add_data(buf) on builder b.  ident - 1 - last_packet is *)
(* u32 arithmetic: below zero it panics where overflow is checked, and     *)
(* where it is not it wraps to a value of at least 2^32 - 1 - last_packet, *)
(* which is above zero.  The bytes are copied one by one and the write     *)
(* past the end of nal_unit_buffer panics, after last_packet was set and   *)
(* the bytes that fit were stored, before end_idx is advanced.             *)
add_data_mut(b, buf) ==
    IF starts_with(buf, FRAME_END) /\ Len(buf) = Len(FRAME_END)
    THEN {[b EXCEPT !.finished = TRUE]}
    ELSE LET d == decode_frame(buf)
             b1 == IF b.finished \/ d.ident <= b.last_packet THEN reset(b) ELSE b
             missing_packets == d.ident - 1 - b1.last_packet
         IN  IF ~d.ok THEN {b}
             ELSE IF b1.failed THEN {b1}
             ELSE IF missing_packets < 0
             THEN {[b1 EXCEPT !.panicked = TRUE, !.underflow = TRUE],
                   [b1 EXCEPT !.failed = TRUE, !.underflow = TRUE]}
             ELSE IF b1.last_idx + Len(d.data) > BufferLen
             THEN {[b1 EXCEPT
                      !.panicked = TRUE,
                      !.last_packet = d.ident,
                      !.nal_unit_buffer =
                          [i \in 1..BufferLen |->
                              IF i > b1.last_idx THEN d.data[i - b1.last_idx] ELSE @[i]],
                      !.last_idx = BufferLen]}
             ELSE {[b1 EXCEPT
                      !.last_packet = d.ident,
                      !.nal_unit_buffer =
                          [i \in 1..BufferLen |->
                              IF i > b1.last_idx /\ i <= b1.last_idx + Len(d.data)
                              THEN d.data[i - b1.last_idx] ELSE @[i]],
                      !.last_idx = @ + Len(d.data),
                      !.end_idx = @ + Len(d.data)]}
add_data(b, buf) ==
    IF starts_with(buf, FRAME_END) /\ Len(buf) = Len(FRAME_END)
    THEN {[b EXCEPT !.finished = TRUE]}
    ELSE LET d == decode_frame(buf)
             b1 == IF b.finished \/ d.ident <= b.last_packet THEN reset(b) ELSE b
             missing_packets == d.ident - 1 - b1.last_packet
         IN  IF ~d.ok THEN {b}
             ELSE IF b1.failed THEN {b1}
             ELSE IF missing_packets < 0
             THEN {[b1 EXCEPT !.panicked = TRUE, !.underflow = TRUE],
                   [b1 EXCEPT !.failed = TRUE, !.underflow = TRUE]}
             ELSE IF missing_packets > 0 THEN {[b1 EXCEPT !.failed = TRUE]}
             ELSE IF b1.last_idx + Len(d.data) > BufferLen
             THEN {[b1 EXCEPT
                      !.panicked = TRUE,
                      !.last_packet = d.ident,
                      !.nal_unit_buffer =
                          [i \in 1..BufferLen |->
                              IF i > b1.last_idx THEN d.data[i - b1.last_idx] ELSE @[i]],
                      !.last_idx = BufferLen]}
             ELSE {[b1 EXCEPT
                      !.last_packet = d.ident,
                      !.nal_unit_buffer =
                          [i \in 1..BufferLen |->
                              IF i > b1.last_idx /\ i <= b1.last_idx + Len(d.data)
                              THEN d.data[i - b1.last_idx] ELSE @[i]],
                      !.last_idx = @ + Len(d.data),
                      !.end_idx = @ + Len(d.data)]}

(* The datagrams: the sender's data followed by its ident, and the terminator. *)
DataBytes == {171, 49}      \* 0xAB as in the crate's tests, and the '1' of FRAME_END
DataSeqs == UNION {[1..k -> DataBytes] : k \in 0..MaxData}
Fragment(data, ident) == data \o u32_to_le_bytes(ident)

(* History: whether the datagrams given since NalBuilder::new() are        *)
(* Fragment(data_1, 1), ..., Fragment(data_k, k) in this order, possibly   *)
(* followed by one terminator; the concatenation of those data; whether    *)
(* a fragment without data was followed by another fragment.               *)
NoFed == [in_order |-> TRUE, k |-> 0, concat |-> <<>>, last_empty |-> FALSE,
          hole |-> FALSE, term |-> FALSE]
OffPath == [NoFed EXCEPT !.in_order = FALSE]

(* History of a gap.  Within one unit the identifiers increase, so a       *)
(* fragment (a datagram with data) starts a unit when the builder is finished or its identifier  *)
(* is not above last_packet; it skips when its identifier is above the    *)
(* unit's last identifier plus one.  state: "open" from a skip until the  *)
(* terminator, "closed" after it, "none" once a fragment starts a unit    *)
(* without skipping.  kept: the unit's bytes stored before the skip.      *)
(* after: fragments given while open.  barren: a skip has happened and no *)
(* unit without a skip has been terminated since.                         *)
NoGap == [state |-> "none", kept |-> <<>>, after |-> 0, barren |-> FALSE]
StartsUnit(b, ident) == b.finished \/ ident <= b.last_packet
Skips(b, ident) == ident > (IF StartsUnit(b, ident) THEN 0 ELSE b.last_packet) + 1
GapAfterFragment(b, ident) ==
    IF Skips(b, ident)
    THEN [state |-> "open",
          kept |-> IF StartsUnit(b, ident) THEN <<>>
                   ELSE SubSeq(b.nal_unit_buffer, 1, b.end_idx),
          after |-> 0, barren |-> TRUE]
    ELSE IF StartsUnit(b, ident) THEN [gap EXCEPT !.state = "none", !.kept = <<>>, !.after = 0]
    ELSE IF gap.state = "open" THEN [gap EXCEPT !.after = 1]
    ELSE gap
GapAfterTerminator ==
    IF gap.state = "open" THEN [gap EXCEPT !.state = "closed"]
    ELSE IF gap.state = "none" THEN [gap EXCEPT !.barren = FALSE]
    ELSE gap

NalBuilder_new ==
    /\ nal' = NalBuilder_default
    /\ fed' = NoFed
    /\ gap' = NoGap
    /\ UNCHANGED <<scp_vars, codec_vars, video_vars>>

AddFragment(data, ident) ==
    /\ ~nal.panicked
    /\ nal' \in add_data(nal, Fragment(data, ident))
    /\ fed' = IF fed.in_order /\ ~fed.term /\ ident = fed.k + 1
              THEN [fed EXCEPT !.k = ident, !.concat = @ \o data,
                               !.hole = @ \/ fed.last_empty,
                               !.last_empty = (data = <<>>)]
              ELSE OffPath
    /\ gap' = IF data = <<>> THEN gap ELSE GapAfterFragment(nal, ident)
    /\ UNCHANGED <<scp_vars, codec_vars, video_vars>>

AddTerminator ==
    /\ ~nal.panicked
    /\ nal' \in add_data(nal, FRAME_END)
    /\ fed' = IF fed.in_order /\ ~fed.term THEN [fed EXCEPT !.term = TRUE] ELSE OffPath
    /\ gap' = GapAfterTerminator
    /\ UNCHANGED <<scp_vars, codec_vars, video_vars>>

InitNal ==
    /\ nal = NalBuilder_default
    /\ fed = NoFed
    /\ gap = NoGap

NextNal ==
    \/ NalBuilder_new
    \/ \E data \in DataSeqs : \E ident \in 0..MaxIdent : AddFragment(data, ident)
    \/ AddTerminator

-----------------------------------------------------------------------------
(* The sender's fragmentation and the datagrams on their way to the receiver *)

\* slice::chunks(n): consecutive pieces of n elements, the last one may be shorter
RECURSIVE chunks(_, _)
chunks(slice, n) ==
    IF slice = <<>> THEN <<>>
    ELSE IF Len(slice) <= n THEN <<slice>>
    ELSE <<SubSeq(slice, 1, n)>> \o chunks(SubSeq(slice, n + 1, Len(slice)), n)

(* The datagrams the send loop makes of one NAL unit: chunk number num,    *)
(* counted from 0 by enumerate(), is sent with the identifier num + 1, and *)
(* FRAME_END follows the last one.  Sequences are indexed from 1 here.     *)
packets_mut(unit) ==
    LET c == chunks(unit, MaxData)
    IN  [i \in 1..Len(c) |-> Fragment(c[i], i - 1)] \o <<FRAME_END>>
packets(unit) ==
    LET c == chunks(unit, MaxData)
    IN  [i \in 1..Len(c) |-> Fragment(c[i], (i - 1) + 1)] \o <<FRAME_END>>

Units == UNION {[1..k -> DataBytes] : k \in 1..MaxUnitLen}

(* A datagram in flight carries its bytes; unit and ident are history: the *)
(* number of the unit it was made of and its place in it, 0 for the        *)
(* terminator.                                                             *)
InFlight(unit, number) ==
    LET p == packets(unit)
    IN  [i \in 1..Len(p) |->
            [bytes |-> p[i], unit |-> number,
             ident |-> IF i = Len(p) THEN 0 ELSE i]]

NoRx == [n |-> 0, unit |-> 0, ident |-> 0, lost |-> {}]

\* the history after the oldest datagram in flight was received
Received_into(b) ==
    [rx EXCEPT !.n = @ + 1, !.unit = Head(udp).unit, !.ident = Head(udp).ident]

\* the sender fragments one more NAL unit and sends its datagrams
SendUnit(unit) ==
    /\ Len(sent_units) < MaxUnits
    /\ sent_units' = Append(sent_units, unit)
    /\ udp' = udp \o InFlight(unit, Len(sent_units) + 1)
    /\ UNCHANGED <<rx, scp_vars, codec_vars, nal_vars, out_vars, in_vars>>

\* the network drops the oldest datagram in flight
Lose ==
    /\ udp # <<>>
    /\ udp' = Tail(udp)
    /\ rx' = [rx EXCEPT !.lost = @ \cup {<<Head(udp).unit, Head(udp).ident>>}]
    /\ UNCHANGED <<sent_units, scp_vars, codec_vars, nal_vars, out_vars, in_vars>>

InitStream ==
    /\ udp = <<>>
    /\ sent_units = <<>>
    /\ rx = NoRx


\* the sender alone: nothing is taken from the network
NextSend == \E unit \in Units : SendUnit(unit)

-----------------------------------------------------------------------------
(* The outgoing video stream: its worker thread and its controls *)

SSIGNAL_NONE == 0
SSIGNAL_DISCONNECT == 2
SSIGNAL_PAUSE == 4
SSIGNAL_RESUME == 8
SSIGNAL_CONNECT == 16
SSIGNAL_TERMINATE == 32

(* Destinations.  The worker's socket is bound to 127.0.0.1, an IPv4       *)
(* address: socket.connect succeeds for an IPv4 destination and fails for  *)
(* an IPv6 one.                                                            *)
PeerV4 == "v4"          \* a loopback IPv4 destination
\* an IPv4 destination outside 127.0.0.0/8 that the host reaches from
\* 127.0.0.1: one of its own addresses, 0.0.0.0, a multicast group
HostV4 == "host"
\* an IPv4 destination the host does not reach from 127.0.0.1: another
\* host's address (EINVAL), the broadcast address (EACCES)
RemoteV4 == "remote"
PeerV6 == "v6"          \* an IPv6 destination (EAFNOSUPPORT)
StreamAddrs == {PeerV4, HostV4, RemoteV4, PeerV6}
\* UdpSocket::connect on the socket bound to 127.0.0.1
socket_connect(addr) == addr \in {PeerV4, HostV4}

\* Option<H264Stream>; force: the encoder has been told to make the next frame a keyframe
NoStream == [some |-> FALSE, force |-> FALSE]
NewStream == [some |-> TRUE, force |-> FALSE]

(* OutgoingH264StreamContext::new.  pc is the worker's position: "load"    *)
(* before process_signals loads the signal, "arm" and "lock" after it,     *)
(* "connect" inside socket.connect, "reset" before the store of            *)
(* SSIGNAL_NONE that follows a connect, "check" after process_signals.     *)
(* keyframes is history: the invocations of force_intra_frame.             *)
OutgoingH264StreamContext_new ==
    [stream |-> NoStream, device |-> FALSE, addr_bound |-> FALSE, streaming |-> FALSE,
     pc |-> "load", signal_value |-> SSIGNAL_NONE, alive |-> "running", keyframes |-> 0]

drop_stream_and_device(c) == [c EXCEPT !.stream = NoStream, !.device = FALSE]

force_intra_frame(c) == [c EXCEPT !.stream.force = TRUE, !.keyframes = @ + 1]

\* the arms of process_signals other than SSIGNAL_CONNECT
process_signals(c, signal_value) ==
    CASE signal_value = SSIGNAL_PAUSE ->
            [c |-> [c EXCEPT !.streaming = FALSE], op_performed |-> TRUE]
      [] signal_value \in {SSIGNAL_DISCONNECT, SSIGNAL_TERMINATE} ->
            [c |-> [drop_stream_and_device(c) EXCEPT !.addr_bound = FALSE,
                                                     !.streaming = FALSE],
             op_performed |-> signal_value = SSIGNAL_DISCONNECT]
      [] signal_value = SSIGNAL_RESUME ->
            [c |-> [c EXCEPT !.streaming = TRUE], op_performed |-> TRUE]
      [] OTHER -> [c |-> c, op_performed |-> FALSE]

\* the SSIGNAL_CONNECT arm once socket.connect has succeeded
connected_mut(c) ==
    LET c1 == [c EXCEPT !.streaming = TRUE, !.addr_bound = TRUE]
    IN  IF ~c1.stream.some \/ ~c1.device
        THEN force_intra_frame([c1 EXCEPT !.stream = NewStream, !.device = TRUE])
        ELSE c1
connected(c) ==
    LET c1 == [c EXCEPT !.streaming = TRUE, !.addr_bound = TRUE]
        c2 == IF ~c1.stream.some \/ ~c1.device
              THEN [c1 EXCEPT !.stream = NewStream, !.device = TRUE]
              ELSE c1
    IN  IF c2.stream.some THEN force_intra_frame(c2) ELSE c2

\* the worker loop's test for sleeping instead of streaming
waits_mut(c) == ~c.streaming /\ ~c.addr_bound
waits(c) == ~c.streaming \/ ~c.addr_bound

\* the contents of one encoded buffer: one or two NAL units
Plain == {unit \in Units : \A i \in 1..Len(unit) : unit[i] = FRAME_END[1]}
Frames == {<<unit>> : unit \in Plain} \cup {<<u, v>> : u \in Plain, v \in Plain}

\* the datagrams the send loop makes of the units of one buffer
RECURSIVE send_units(_, _)
send_units(frame, number) ==
    IF frame = <<>> THEN <<>>
    ELSE InFlight(Head(frame), number) \o send_units(Tail(frame), number + 1)

(* History of the worker.  connects: SSIGNAL_CONNECTs processed with       *)
(* success.  halted: a PAUSE or DISCONNECT has been processed and since    *)
(* then neither a RESUME with addr_bound true nor a successful CONNECT.    *)
(* ever_halted, restarted: halted has been true; datagrams have been sent  *)
(* after that.  unpaused: a RESUME has been processed since the last       *)
(* successful CONNECT.  fresh: nothing sent since the last successful      *)
(* CONNECT.                                                                *)
NoOut == [connects |-> 0, halted |-> FALSE, ever_halted |-> FALSE, restarted |-> FALSE,
          unpaused |-> FALSE, fresh |-> FALSE]
NoCtl == [state |-> "live", calls |-> 0]

not_out == <<rx, scp_vars, codec_vars, nal_vars, in_vars>>

\* process_signals: the load of the signal
ProcessSignalsLoad ==
    /\ ctx.alive = "running" /\ ctx.pc = "load"
    /\ ctx' = [ctx EXCEPT !.signal_value = signal,
                          !.pc = IF signal = SSIGNAL_CONNECT THEN "lock" ELSE "arm"]
    /\ UNCHANGED <<signal, signal_data, lock, ctl, outgoing, udp, sent_units, not_out>>

\* process_signals: an arm other than SSIGNAL_CONNECT, and the reset of the signal
ProcessSignalsArm ==
    /\ ctx.alive = "running" /\ ctx.pc = "arm"
    /\ LET r == process_signals(ctx, ctx.signal_value)
       IN  /\ ctx' = [r.c EXCEPT !.pc = "check"]
           /\ signal' = IF r.op_performed THEN SSIGNAL_NONE ELSE signal
    /\ outgoing' = [outgoing EXCEPT
                 !.halted = IF ctx.signal_value \in {SSIGNAL_PAUSE, SSIGNAL_DISCONNECT}
                            THEN TRUE
                            ELSE IF ctx.signal_value = SSIGNAL_RESUME /\ ctx.addr_bound
                            THEN FALSE ELSE @,
                 !.ever_halted = @ \/ ctx.signal_value \in {SSIGNAL_PAUSE, SSIGNAL_DISCONNECT},
                 !.unpaused = @ \/ ctx.signal_value = SSIGNAL_RESUME]
    /\ UNCHANGED <<signal_data, lock, ctl, udp, sent_units, not_out>>

\* the SSIGNAL_CONNECT arm: self.signal_data.lock()
ProcessSignalsLock ==
    /\ ctx.alive = "running" /\ ctx.pc = "lock"
    /\ lock = "free"
    /\ lock' = "worker"
    /\ ctx' = [ctx EXCEPT !.pc = "connect"]
    /\ UNCHANGED <<signal, signal_data, ctl, outgoing, udp, sent_units, not_out>>

(* The SSIGNAL_CONNECT arm from socket.connect to the end of the if let,   *)
(* where the guard of the mutex goes out of scope: an error returns from   *)
(* process_signals; init_inner_stream unwraps the opening of the video     *)
(* device and panics without one.                                          *)
ProcessSignalsConnect ==
    /\ ctx.alive = "running" /\ ctx.pc = "connect"
    /\ IF ~socket_connect(signal_data)
       THEN /\ ctx' = [ctx EXCEPT !.pc = "check"]
            /\ lock' = "free"
            /\ UNCHANGED outgoing
       ELSE \/ /\ ctx' = [connected(ctx) EXCEPT !.pc = "reset"]
               /\ lock' = "free"
               /\ outgoing' = [outgoing EXCEPT !.connects = @ + 1, !.halted = FALSE,
                                               !.unpaused = FALSE, !.fresh = TRUE]
            \/ /\ ~ctx.stream.some
               /\ ctx' = [ctx EXCEPT !.streaming = TRUE, !.addr_bound = TRUE,
                                     !.alive = "panicked"]
               /\ lock' = "poisoned"
               /\ UNCHANGED outgoing
    /\ UNCHANGED <<signal, signal_data, ctl, udp, sent_units, not_out>>

\* the SSIGNAL_CONNECT arm has set op_performed: the reset of the signal
ProcessSignalsReset ==
    /\ ctx.alive = "running" /\ ctx.pc = "reset"
    /\ signal' = SSIGNAL_NONE
    /\ ctx' = [ctx EXCEPT !.pc = "check"]
    /\ UNCHANGED <<signal_data, lock, ctl, outgoing, udp, sent_units, not_out>>

\* the loop while not streaming: break on SSIGNAL_TERMINATE, else sleep and continue
Wait ==
    /\ ctx.alive = "running" /\ ctx.pc = "check"
    /\ waits(ctx)
    /\ ctx' = IF signal = SSIGNAL_TERMINATE THEN [ctx EXCEPT !.alive = "exited"]
              ELSE [ctx EXCEPT !.pc = "load"]
    /\ UNCHANGED <<signal, signal_data, lock, ctl, outgoing, udp, sent_units, not_out>>

(* The loop while streaming: next_vec() gives no buffer, or one whose NAL  *)
(* units are fragmented and sent; encoding a frame uses up the forcing.    *)
Stream ==
    /\ ctx.alive = "running" /\ ctx.pc = "check"
    /\ ~waits(ctx)
    /\ \/ /\ ctx' = [ctx EXCEPT !.pc = "load"]
          /\ UNCHANGED <<udp, sent_units, outgoing>>
       \/ /\ ctx.stream.some
          /\ \E frame \in Frames :
                /\ Len(sent_units) + Len(frame) <= MaxUnits
                /\ sent_units' = sent_units \o frame
                /\ udp' = udp \o send_units(frame, Len(sent_units) + 1)
          /\ ctx' = [ctx EXCEPT !.pc = "load", !.stream.force = FALSE]
          /\ outgoing' = [outgoing EXCEPT !.fresh = FALSE,
                                          !.restarted = @ \/ outgoing.ever_halted]
    /\ UNCHANGED <<signal, signal_data, lock, ctl, not_out>>

CanCall == ctl.state = "live" /\ ctl.calls < MaxCtl
Called == [ctl EXCEPT !.calls = @ + 1]

\* StreamControls::connect up to the write of the address; try_lock().unwrap() panics
StreamControls_connect(addr) ==
    /\ CanCall
    /\ IF lock = "free"
       THEN /\ lock' = "controls"
            /\ signal_data' = addr
            /\ ctl' = [Called EXCEPT !.state = "connect"]
       ELSE /\ ctl' = [Called EXCEPT !.state = "panicked"]
            /\ UNCHANGED <<lock, signal_data>>
    /\ UNCHANGED <<signal, ctx, outgoing, udp, sent_units, not_out>>

\* StreamControls::connect: the store of SSIGNAL_CONNECT and the end of the guard
StreamControls_connect_store ==
    /\ ctl.state = "connect"
    /\ signal' = SSIGNAL_CONNECT
    /\ lock' = "free"
    /\ ctl' = [ctl EXCEPT !.state = "live"]
    /\ UNCHANGED <<signal_data, ctx, outgoing, udp, sent_units, not_out>>

StreamControls_disconnect ==
    /\ CanCall
    /\ signal' = SSIGNAL_DISCONNECT
    /\ ctl' = Called
    /\ UNCHANGED <<signal_data, lock, ctx, outgoing, udp, sent_units, not_out>>

StreamControls_pause ==
    /\ CanCall
    /\ signal' = SSIGNAL_PAUSE
    /\ ctl' = Called
    /\ UNCHANGED <<signal_data, lock, ctx, outgoing, udp, sent_units, not_out>>

StreamControls_unpause ==
    /\ CanCall
    /\ signal' = SSIGNAL_RESUME
    /\ ctl' = Called
    /\ UNCHANGED <<signal_data, lock, ctx, outgoing, udp, sent_units, not_out>>

\* impl Drop for H264StreamControls, also run when its owner unwinds
H264StreamControls_drop ==
    /\ ctl.state \in {"live", "panicked"}
    /\ signal' = SSIGNAL_TERMINATE
    /\ ctl' = [ctl EXCEPT !.state = "dropped"]
    /\ UNCHANGED <<signal_data, lock, ctx, outgoing, udp, sent_units, not_out>>

\* init_h264_video_stream
InitOut ==
    /\ signal = SSIGNAL_NONE
    /\ signal_data = PeerV4
    /\ lock = "free"
    /\ ctx = OutgoingH264StreamContext_new
    /\ ctl = NoCtl
    /\ outgoing = NoOut

NextOut ==
    \/ ProcessSignalsLoad
    \/ ProcessSignalsArm
    \/ ProcessSignalsLock
    \/ ProcessSignalsConnect
    \/ ProcessSignalsReset
    \/ Wait
    \/ Stream
    \/ \E addr \in StreamAddrs : StreamControls_connect(addr)
    \/ StreamControls_connect_store
    \/ StreamControls_disconnect
    \/ StreamControls_pause
    \/ StreamControls_unpause
    \/ H264StreamControls_drop

-----------------------------------------------------------------------------
(* The incoming video stream: its worker thread and its controls.  Time is *)
(* counted in seconds.                                                     *)

CONNECTION_TIMEOUT == 5

(* Instants are kept by their age, the time from them to now, so that      *)
(* Instant::now() is 0.  self.duration_since(earlier) is the time from     *)
(* earlier to self; when earlier is the later of the two the result is     *)
(* zero, or a panic in the versions of the library that do not saturate.   *)
Instant_now == 0
Elapsed(d) == [panics |-> FALSE, secs |-> d]
DurationPanic == [panics |-> TRUE, secs |-> 0]
duration_since(self, earlier) ==
    IF earlier >= self THEN {Elapsed(earlier - self)} ELSE {Elapsed(0), DurationPanic}

(* The thread's locals at its start.  pc: "load" before the load of the    *)
(* signal, "arm" after it, "recv" after the match.  iterated: the loop has *)
(* come round since the clock last advanced.                               *)
IncomingWorker_new ==
    [alive |-> "running", pc |-> "load", loaded |-> SSIGNAL_NONE, iterated |-> FALSE]

not_in_rx == <<sent_units, fed, gap, scp_vars, codec_vars, out_vars>>
not_in == <<rx, not_in_rx>>

\* the loop: signal_clone.load
IncomingLoad ==
    /\ inw.alive = "running" /\ inw.pc = "load"
    /\ inw' = [inw EXCEPT !.loaded = in_signal, !.pc = "arm"]
    /\ UNCHANGED <<in_signal, in_data, conn_status, in_ctl, clock, nal, udp, rgb_frame_buffer, not_in>>

\* the loop: the arms of the match on the loaded signal
IncomingArm ==
    /\ inw.alive = "running" /\ inw.pc = "arm"
    /\ CASE inw.loaded = SSIGNAL_CONNECT /\ socket_connect(in_data) ->
              /\ in_signal' = SSIGNAL_NONE
              /\ nal' = reset(nal)
              /\ conn_status' = TRUE
              /\ clock' = [clock EXCEPT !.quiet = 0]
              /\ inw' = [inw EXCEPT !.pc = "recv"]
         [] inw.loaded = SSIGNAL_DISCONNECT ->
              /\ in_signal' = SSIGNAL_NONE
              /\ conn_status' = FALSE
              /\ inw' = [inw EXCEPT !.pc = "recv"]
              /\ UNCHANGED <<nal, clock>>
         [] inw.loaded = SSIGNAL_TERMINATE ->
              /\ inw' = [inw EXCEPT !.alive = "exited"]
              /\ UNCHANGED <<in_signal, nal, conn_status, clock>>
         [] OTHER ->
              /\ inw' = [inw EXCEPT !.pc = "recv"]
              /\ UNCHANGED <<in_signal, nal, conn_status, clock>>
    /\ UNCHANGED <<in_data, in_ctl, udp, rgb_frame_buffer, not_in>>

\* the loop while not connected: sleep and continue
IncomingSleep ==
    /\ inw.alive = "running" /\ inw.pc = "recv"
    /\ ~conn_status
    /\ inw' = [inw EXCEPT !.pc = "load", !.iterated = TRUE]
    /\ UNCHANGED <<in_signal, in_data, conn_status, in_ctl, clock, nal, udp, rgb_frame_buffer, not_in>>

(* A unit that get_nal_unit returns is given to decoder.decode, which may  *)
(* yield a frame; the frame is written under RGB_FRAME_BUFFER.lock()       *)
(* .unwrap().  The first lock builds the lazy static, WIDTH * HEIGHT * 4   *)
(* bytes, on the stack of the worker thread, which the build may overflow  *)
(* (the process aborts); on the poisoned mutex the unwrap panics.          *)
Wrote(stops, buffer) == [stops |-> stops, buffer |-> buffer]
write_rgba8(buffer) ==
    CASE buffer = "new" -> {Wrote("aborted", "new"), Wrote("no", "free")}
      [] buffer = "free" -> {Wrote("no", "free")}
      [] buffer = "poisoned" -> {Wrote("panicked", "poisoned")}
decode(b, buffer) ==
    IF b.panicked THEN {Wrote("panicked", buffer)}
    ELSE IF get_nal_unit(b).some THEN {Wrote("no", buffer)} \cup write_rgba8(buffer)
    ELSE {Wrote("no", buffer)}

\* the loop while connected: socket.recv returns a datagram, which is added and decoded
IncomingRecvOk ==
    /\ inw.alive = "running" /\ inw.pc = "recv"
    /\ conn_status
    /\ udp # <<>>
    /\ udp' = Tail(udp)
    /\ clock' = [age |-> Instant_now, quiet |-> 0]
    /\ nal' \in add_data(nal, Head(udp).bytes)
    /\ \E d \in decode(nal', rgb_frame_buffer) :
          /\ rgb_frame_buffer' = d.buffer
          /\ inw' = IF d.stops = "no"
                    THEN [inw EXCEPT !.pc = "load", !.iterated = TRUE]
                    ELSE [inw EXCEPT !.alive = d.stops]
          /\ in_ctl' = IF d.stops = "aborted"
                       THEN [in_ctl EXCEPT !.state = "aborted"] ELSE in_ctl
    /\ rx' = Received_into(nal')
    /\ UNCHANGED <<in_signal, in_data, conn_status, not_in_rx>>

\* the loop while connected: socket.recv times out
IncomingRecvTimeout ==
    /\ inw.alive = "running" /\ inw.pc = "recv"
    /\ conn_status
    /\ \E d \in duration_since(clock.age, Instant_now) :
          IF d.panics
          THEN /\ inw' = [inw EXCEPT !.alive = "panicked"]
               /\ UNCHANGED conn_status
          ELSE /\ inw' = [inw EXCEPT !.pc = "load", !.iterated = TRUE]
               /\ conn_status' = IF d.secs > CONNECTION_TIMEOUT THEN FALSE ELSE conn_status
    /\ UNCHANGED <<in_signal, in_data, in_ctl, clock, nal, udp, rgb_frame_buffer, not_in>>

\* a second passes; the loop comes round at least once in every second
SecondPasses ==
    /\ inw.iterated \/ inw.alive # "running"
    /\ clock.quiet < MaxTime /\ clock.age < MaxTime
    /\ clock' = [age |-> clock.age + 1, quiet |-> clock.quiet + 1]
    /\ inw' = [inw EXCEPT !.iterated = FALSE]
    /\ UNCHANGED <<in_signal, in_data, conn_status, in_ctl, nal, udp, rgb_frame_buffer, not_in>>

\* last is history: the latest call on the controls
NoInCtl == [state |-> "live", calls |-> 0, last |-> "none"]
InCanCall == in_ctl.state = "live" /\ in_ctl.calls < MaxCtl

\* IncomingStreamControls::accept
IncomingStreamControls_accept(addr) ==
    /\ InCanCall
    /\ in_data' = addr
    /\ in_signal' = SSIGNAL_CONNECT
    /\ in_ctl' = [in_ctl EXCEPT !.calls = @ + 1, !.last = "accept"]
    /\ UNCHANGED <<conn_status, inw, clock, nal, udp, rgb_frame_buffer, not_in>>

\* IncomingStreamControls::refuse
IncomingStreamControls_refuse ==
    /\ InCanCall
    /\ in_signal' = SSIGNAL_DISCONNECT
    /\ in_ctl' = [in_ctl EXCEPT !.calls = @ + 1, !.last = "refuse"]
    /\ UNCHANGED <<in_data, conn_status, inw, clock, nal, udp, rgb_frame_buffer, not_in>>

(* IncomingStreamControls::get_data: Err on the poisoned mutex, else the    *)
(* todo!() panics under the guard of RGB_FRAME_BUFFER and poisons it.  The *)
(* first lock builds the lazy static on the caller's stack, which the      *)
(* build may overflow (the process aborts).                                *)
IncomingStreamControls_get_data ==
    /\ InCanCall
    /\ \/ /\ rgb_frame_buffer' = "poisoned"
          /\ in_ctl' = IF rgb_frame_buffer = "poisoned"
                       THEN [in_ctl EXCEPT !.calls = @ + 1]
                       ELSE [in_ctl EXCEPT !.calls = @ + 1, !.state = "panicked"]
          /\ UNCHANGED inw
       \/ /\ rgb_frame_buffer = "new"
          /\ in_ctl' = [in_ctl EXCEPT !.calls = @ + 1, !.state = "aborted"]
          /\ inw' = [inw EXCEPT !.alive = "aborted"]
          /\ UNCHANGED rgb_frame_buffer
    /\ UNCHANGED <<in_signal, in_data, conn_status, clock, nal, udp, not_in>>

\* impl Drop for H264IncomingStreamControls, also run when its owner unwinds
H264IncomingStreamControls_drop ==
    /\ in_ctl.state \in {"live", "panicked"}
    /\ in_signal' = SSIGNAL_TERMINATE
    /\ in_ctl' = [in_ctl EXCEPT !.state = "dropped"]
    /\ UNCHANGED <<in_data, conn_status, inw, clock, nal, udp, rgb_frame_buffer, not_in>>

\* the peer's sender fragments one more NAL unit and sends its datagrams
PeerSends(unit) ==
    /\ Len(sent_units) < MaxUnits
    /\ sent_units' = Append(sent_units, unit)
    /\ udp' = udp \o InFlight(unit, Len(sent_units) + 1)
    /\ UNCHANGED <<rx, fed, gap, nal, scp_vars, codec_vars, out_vars, in_vars>>

\* init_incoming_h264_stream
InitIn ==
    /\ in_signal = SSIGNAL_NONE
    /\ in_data = PeerV4
    /\ conn_status = FALSE
    /\ inw = IncomingWorker_new
    /\ in_ctl = NoInCtl
    /\ rgb_frame_buffer = "new"
    /\ clock = [age |-> Instant_now, quiet |-> 0]

(* The sender's datagrams on their way to an incoming worker that has been *)
(* told to accept: any of them may be lost.                                *)
NextStream ==
    \/ \E unit \in Units : SendUnit(unit)
    \/ Lose
    \/ IncomingLoad
    \/ IncomingArm
    \/ IncomingSleep
    \/ IncomingRecvOk
    \/ IncomingRecvTimeout
    \/ \E addr \in StreamAddrs : IncomingStreamControls_accept(addr)

NextIn ==
    \/ IncomingLoad
    \/ IncomingArm
    \/ IncomingSleep
    \/ IncomingRecvOk
    \/ IncomingRecvTimeout
    \/ SecondPasses
    \/ \E addr \in StreamAddrs : IncomingStreamControls_accept(addr)
    \/ IncomingStreamControls_refuse
    \/ IncomingStreamControls_get_data
    \/ H264IncomingStreamControls_drop
    \/ \E unit \in Plain : PeerSends(unit)

-----------------------------------------------------------------------------
(* The action and event mutexes of client.rs at the grain of their guards. *)
(* The thread started by spawn_handler_thread binds the action guard to a  *)
(* local at the top of its loop body and keeps it to the end of the        *)
(* iteration; the facade binds the event guard for one turn of its poll    *)
(* loop, sleep included.  Every other use of a mutex is a guard that lives *)
(* for one statement: it is one step, taken when the mutex is free.        *)

MaxLockCalls == 2  \* facade calls on the two mutexes in one behaviour
MaxPolls == 2      \* turns of a poll loop before its timeout (50 and 30 in the source)
MaxConns == 1      \* connections a peer makes to the listener in one behaviour

Mutexes == {"action", "event"}
Polling == {"request_chat", "accept_incoming_connection"}
Methods == Polling \cup {"end_connection"}

\* the ConnectionAction a facade method stores
ActionOf(method) ==
    CASE method = "request_chat" -> "AttemptConnection"
      [] method = "accept_incoming_connection" -> "AcceptConnection"
      [] method = "end_connection" -> "EndConnection"
      [] method = "drop" -> "Terminate"

NoMx == [holder |-> [m \in Mutexes |-> "none"],
         poisoned |-> FALSE,       \* the action mutex; nothing panics under the other
         action |-> "None",        \* the action slot
         event |-> "None",         \* the event slot
         call |-> "none",          \* the facade method running, "panicked", "dropped", "aborted"
         at |-> "none",            \* its position: "store", "lock", "match"
         polls |-> 0,
         ncalls |-> 0,
         w |-> "lock_action",      \* the thread's position in its loop body
         conn |-> "none",          \* the connection waiting on or taken from the listener
         conns |-> 0,
         blocking |-> FALSE]       \* whether the accepted stream blocks in read

LockUnchanged == UNCHANGED <<scp_slots, codec_vars, nal_vars, video_vars>>

\* the guard of the iteration goes out of scope
EndIteration(m) == [m EXCEPT !.holder.action = "none", !.conn = "none", !.w = "lock_action"]

\* let mut action = rx.lock().unwrap();
HandlerThread_lock_action ==
    /\ mx.w = "lock_action"
    /\ mx.holder.action = "none"
    /\ mx' = [mx EXCEPT !.holder.action = "worker", !.w = "check"]
    /\ LockUnchanged

\* Terminate: break
HandlerThread_terminate ==
    /\ mx.w = "check"
    /\ mx.action = "Terminate"
    /\ mx' = [mx EXCEPT !.holder.action = "none", !.w = "done"]
    /\ LockUnchanged

\* AttemptConnection: connect_timeout(..).unwrap() and write_all(..).unwrap()
HandlerThread_attempt_connection ==
    /\ mx.w = "check"
    /\ mx.action = "AttemptConnection"
    /\ \E dialled \in BOOLEAN :
          mx' = IF dialled
                THEN [mx EXCEPT !.w = "publish"]
                ELSE [mx EXCEPT !.holder.action = "none", !.poisoned = TRUE,
                                !.w = "panicked"]
    /\ LockUnchanged

\* *tx.lock().unwrap() = Some(ConnectionEstablished(..)), under the action guard
HandlerThread_publish ==
    /\ mx.w = "publish"
    /\ mx.holder.event = "none"
    /\ mx' = [mx EXCEPT !.event = "ConnectionEstablished", !.w = "take"]
    /\ LockUnchanged

\* *action = None
HandlerThread_take ==
    /\ \/ mx.w = "take"
       \/ mx.w = "check" /\ mx.action \notin {"Terminate", "AttemptConnection"}
    /\ mx' = [mx EXCEPT !.action = "None", !.w = "accept"]
    /\ LockUnchanged

\* listener.accept() on the nonblocking listener; whether the accepted
\* stream inherits the listener's nonblocking mode depends on the platform
HandlerThread_accept ==
    /\ mx.w = "accept"
    /\ IF mx.conn = "none"
       THEN mx' = EndIteration(mx)
       ELSE \E blocking \in BOOLEAN :
               mx' = [mx EXCEPT !.w = "read", !.blocking = blocking]
    /\ LockUnchanged

(* stream.read(&mut buf) and ScpMessage::deserialize; a blocking read of a *)
(* stream whose peer has neither written nor closed does not return.       *)
(* deserialize transmutes the two bytes after the header before it splits  *)
(* the rest: bytes that are no SCPCommand abort the process in a build     *)
(* that checks the value, and a framed message too short for split_at      *)
(* panics, the thread dying under the action guard.  After an abort the    *)
(* process is gone: neither thread takes another step.                     *)
HandlerThread_read ==
    LET Aborted(m) ==
            [m EXCEPT !.holder = [x \in Mutexes |-> "none"], !.w = "aborted",
                      !.call = "aborted", !.at = "none"]
    IN
    /\ mx.w = "read"
    /\ mx.conn = "silent" => ~mx.blocking
    /\ mx' \in CASE mx.conn = "Start" -> {[mx EXCEPT !.w = "publish_incoming"]}
                 [] mx.conn = "short" ->
                      {Aborted(mx),
                       [mx EXCEPT !.holder.action = "none", !.poisoned = TRUE,
                                  !.w = "panicked"]}
                 [] mx.conn = "invalid" -> {Aborted(mx), EndIteration(mx)}
                 [] OTHER -> {EndIteration(mx)}
    /\ LockUnchanged

\* Start received: *tx.lock().unwrap() = Some(ConnectionEstablished(..))
HandlerThread_publish_incoming ==
    /\ mx.w = "publish_incoming"
    /\ mx.holder.event = "none"
    /\ mx' = [EndIteration(mx) EXCEPT !.event = "ConnectionEstablished"]
    /\ LockUnchanged

\* a peer connects to the listener
PeerConnects ==
    /\ mx.conns < MaxConns
    /\ mx.conn = "none"
    /\ mx.w \notin {"done", "panicked", "aborted"}
    /\ mx' = [mx EXCEPT !.conn = "silent", !.conns = @ + 1]
    /\ LockUnchanged

\* the peer writes a Start, a framed message with nothing (or two bytes that
\* are no command) between HEADER and END, a well-framed message whose command
\* is no SCPCommand, something else, or closes the connection
PeerWrites(what) ==
    /\ mx.conn = "silent"
    /\ mx' = [mx EXCEPT !.conn = what]
    /\ LockUnchanged

\* the caller enters request_chat, accept_incoming_connection or end_connection
ScpClient_enter(method) ==
    /\ mx.call = "none"
    /\ mx.ncalls < MaxLockCalls
    /\ mx' = [mx EXCEPT !.call = method, !.at = "store", !.ncalls = @ + 1]
    /\ LockUnchanged

\* impl Drop: if !self.tx.is_poisoned()
ScpClient_drop_check ==
    /\ mx.call = "none"
    /\ mx.ncalls < MaxLockCalls
    /\ mx' = IF mx.poisoned
             THEN [mx EXCEPT !.call = "dropped", !.ncalls = @ + 1]
             ELSE [mx EXCEPT !.call = "drop", !.at = "store", !.ncalls = @ + 1]
    /\ LockUnchanged

\* *self.tx.lock().unwrap() = Some(..)
ScpClient_store ==
    /\ mx.at = "store"
    /\ mx.holder.action = "none"
    /\ mx' = IF mx.poisoned
             THEN [mx EXCEPT !.call = "panicked", !.at = "none"]
             ELSE [mx EXCEPT !.action = ActionOf(mx.call),
                             !.polls = 0,
                             !.call = IF mx.call \in Polling THEN @
                                      ELSE IF mx.call = "drop" THEN "dropped"
                                      ELSE "none",
                             !.at = IF mx.call \in Polling THEN "lock" ELSE "none"]
    /\ LockUnchanged

\* while start + TIMEOUT > Instant::now(): the time is up
ScpClient_timeout ==
    /\ mx.at = "lock"
    /\ mx.polls = MaxPolls
    /\ mx' = [mx EXCEPT !.call = "none", !.at = "none"]
    /\ LockUnchanged

\* self.rx.lock().unwrap(), bound to msg or alive as the match's scrutinee
ScpClient_lock_event ==
    /\ mx.at = "lock"
    /\ mx.polls < MaxPolls
    /\ mx.holder.event = "none"
    /\ mx' = [mx EXCEPT !.holder.event = "facade", !.at = "match"]
    /\ LockUnchanged

\* the match on the event: return it, or sleep 100 ms under the guard
ScpClient_match ==
    /\ mx.at = "match"
    /\ mx' = IF mx.event = "None"
             THEN [mx EXCEPT !.holder.event = "none", !.polls = @ + 1, !.at = "lock"]
             ELSE [mx EXCEPT !.holder.event = "none", !.call = "none", !.at = "none"]
    /\ LockUnchanged

InitLock == mx = NoMx

HandlerThreadNext ==
    \/ HandlerThread_lock_action
    \/ HandlerThread_terminate
    \/ HandlerThread_attempt_connection
    \/ HandlerThread_publish
    \/ HandlerThread_take
    \/ HandlerThread_accept
    \/ HandlerThread_read
    \/ HandlerThread_publish_incoming

ScpClientNext ==
    \/ \E method \in Methods : ScpClient_enter(method)
    \/ ScpClient_drop_check
    \/ ScpClient_store
    \/ ScpClient_timeout
    \/ ScpClient_lock_event
    \/ ScpClient_match

NextLock ==
    \/ HandlerThreadNext
    \/ ScpClientNext
    \/ PeerConnects
    \/ \E what \in {"Start", "short", "invalid", "other", "closed"} : PeerWrites(what)

-----------------------------------------------------------------------------

InitScp ==
    /\ state = [w \in Workers |-> "Free"]
    /\ communicating_with = [w \in Workers |-> NoAddr]
    /\ got_preferences = [w \in Workers |-> NoPrefs]
    /\ alive = [w \in Workers |-> "running"]
    /\ phase = [w \in Workers |-> "action"]
    /\ action = [w \in Workers |-> NoAction]
    /\ taken = [w \in Workers |-> NoAction]
    /\ staged = [w \in Workers |-> Unstaged]
    /\ event = [w \in Workers |-> NoEvent]
    /\ inbox = [w \in Workers |-> <<>>]
    /\ pc = [w \in Workers |-> "idle"]
    /\ result = [w \in Workers |-> NoResult]
    /\ calls = <<>>
    /\ injected = 0
    /\ last = [w \in Workers |-> NoLast]
    /\ neg = [w \in Workers |-> NoNeg]
    /\ peers_seen = [w \in Workers |-> {}]

Init ==
    InitScp /\ InitCodec /\ InitNal /\ InitStream /\ InitOut /\ InitIn /\ InitLock

Next ==
    \/ \E w \in Workers : handle_action(w)
    \/ \E w \in Workers : handle_action_match(w)
    \/ \E w \in Workers : handle_action_publish(w)
    \/ \E w \in Workers : handle_connection(w)
    \/ \E w \in Workers : handle_connection_read(w)
    \/ \E w \in Workers : handle_connection_publish(w)
    \/ \E w \in Workers : handle_connection_write(w)
    \/ \E w \in Workers : \E d \in Destinations(w) : request_chat(w, d)
    \/ \E w \in Workers : request_chat_return(w)
    \/ \E w \in Workers : accept_incoming_connection(w)
    \/ \E w \in Workers : accept_incoming_connection_return(w)
    \/ \E w \in Workers : ScpClient_end_connection(w)
    \/ \E w \in Workers : drop(w)
    \/ \E w \in Workers : \E m \in ThirdPayloads : \E open \in BOOLEAN :
          ThirdDials(w, m, open)
    \/ \E w \in Workers : ThirdCloses(w)

Spec == Init /\ [][Next]_vars

\* the two slot mutexes under the calls of one facade and the connections of a peer
SpecLock == Init /\ [][NextLock]_vars

\* the same with two threads that keep running and get a mutex that keeps
\* becoming free
SpecLockLive == SpecLock /\ SF_vars(HandlerThreadNext) /\ SF_vars(ScpClientNext)

\* the codec applied to bounded inputs
SpecCodec == Init /\ [][NextCodec]_vars

\* the NalBuilder fed bounded datagrams
SpecNal == Init /\ [][NextNal]_vars

\* the sender's datagrams delivered in send order, any of them lost
SpecStream == Init /\ [][NextStream]_vars

\* the sender's datagrams as it has queued them
SpecSend == Init /\ [][NextSend]_vars

\* the outgoing stream's worker and the calls on its controls
SpecOut == Init /\ [][NextOut]_vars

\* the incoming stream's worker, the calls on its controls, the peer and the clock
SpecIn == Init /\ [][NextIn]_vars

\* the same with a worker thread that keeps running
IncomingWorkerNext ==
    \/ IncomingLoad
    \/ IncomingArm
    \/ IncomingSleep
    \/ IncomingRecvOk
    \/ IncomingRecvTimeout
SpecInLive == SpecIn /\ WF_vars(IncomingWorkerNext)

\* the same with a worker thread and a controls caller that keep running
WorkerNext ==
    \/ ProcessSignalsLoad
    \/ ProcessSignalsArm
    \/ ProcessSignalsLock
    \/ ProcessSignalsConnect
    \/ ProcessSignalsReset
    \/ Wait
    \/ Stream
SpecOutLive ==
    SpecOut /\ WF_vars(WorkerNext) /\ WF_vars(StreamControls_connect_store)

TypeOK ==
    /\ \A w \in Workers :
          /\ state[w] \in {"Free", "Handshake", "ConfigShared", "Awaiting", "Connected"}
          /\ alive[w] \in {"running", "panicked", "terminated"}
          /\ phase[w] \in {"action", "match", "publish", "connection", "read", "write"}
          /\ pc[w] \in {"idle", "request_chat", "accept", "dropped"}
    /\ Len(calls) <= MaxCalls
    /\ injected <= MaxInject

-----------------------------------------------------------------------------
(* Reading a step: which handler ran, and on what. *)

\* worker w took the pending action from the slot
TakeStep(w) ==
    /\ alive[w] = "running"
    /\ phase[w] = "action" /\ phase'[w] = "match"

\* worker w finished the handler of the action it had taken
ActionStep(w) ==
    /\ alive[w] = "running"
    /\ phase[w] \in {"match", "publish"} /\ phase'[w] = "connection"

\* worker w finished the handler of the payload it had read
ReadStep(w) ==
    /\ alive[w] = "running"
    /\ phase[w] \in {"read", "publish", "write"} /\ phase'[w] = "action"

\* worker w ran handle_connection on a queued connection to its end
ConnStep(w) ==
    \/ ReadStep(w)
    \/ /\ alive[w] = "running"
       /\ phase[w] = "connection" /\ phase'[w] = "action"
       /\ inbox[w] # <<>>

\* worker w read and dispatched the queued payload (it did not answer End)
Received(w, cmd) ==
    /\ ReadStep(w)
    /\ Head(inbox[w]).msg.cmd = cmd

\* the facade call of w that is in progress or returned last
CurrentCall(w) ==
    calls[CHOOSE i \in 1..Len(calls) :
             /\ calls[i].who = w
             /\ \A j \in (i+1)..Len(calls) : calls[j].who # w]

Returns(w, op) == pc[w] = op /\ pc'[w] = "idle"

-----------------------------------------------------------------------------
(* The claims *)

\* the run so far is: A calls request_chat(B), then B calls
\* accept_incoming_connection(); nothing else has happened
AcceptScenario ==
    /\ injected = 0
    /\ Len(calls) >= 1 =>
          /\ calls[1].who = "A" /\ calls[1].op = "request_chat"
          /\ calls[1].dest = ListenAddr("B")
    /\ Len(calls) >= 2 =>
          /\ calls[2].who = "B" /\ calls[2].op = "accept_incoming_connection"
    /\ Len(calls) <= 2

\* C1: when A calls request_chat(B) and B afterwards calls
\* accept_incoming_connection(), then under every interleaving neither worker
\* stops, both calls return Ok(SessionConfig), A's config carries B's IP and
\* B's config carries A's IP.
C1_BothCallsReturnOk ==
    AcceptScenario =>
        /\ \A w \in Workers : alive[w] = "running"
        /\ (Len(calls) >= 1 /\ pc["A"] = "idle") =>
              result["A"].ok = "Ok" /\ result["A"].ip = "B"
        /\ (Len(calls) >= 2 /\ pc["B"] = "idle") =>
              result["B"].ok = "Ok" /\ result["B"].ip = "A"

\* C2: while a worker is not Free, an inbound connection from a third endpoint
\* (one that has never been its peer), whatever it sends, is answered with a
\* single End frame and closed, and state, communicating_with and
\* got_preferences are unchanged.
C2_ThirdPartyGetsEnd ==
    [][\A w \in Workers :
          (ConnStep(w) /\ state[w] # "Free"
                       /\ Head(inbox[w]).src \notin peers_seen[w])
          => /\ last'[w].how = "busy" /\ last'[w].reply = "End"
             /\ state'[w] = state[w]
             /\ communicating_with'[w] = communicating_with[w]
             /\ got_preferences'[w] = got_preferences[w]]_vars

\* C3: in every connection state, receiving an End message moves the worker to
\* Free, publishes ConnectionEnd and clears the peer.
C3_EndMovesToFree ==
    \A w \in Workers :
        (alive[w] = "running" /\ last[w].how = "recv" /\ last[w].what = "End")
        => /\ state[w] = "Free"
           /\ event[w] = ConnectionEnd
           /\ communicating_with[w] = NoAddr

\* C4: handling an EndConnection or RefuseConnection action publishes
\* ConnectionEnd, clears communicating_with and got_preferences and leaves the
\* worker in Free; an End frame is sent to the peer exactly when one was set.
C4_EndActionResets ==
    [][\A w \in Workers :
          (ActionStep(w) /\ taken[w].kind \in {"EndConnection", "RefuseConnection"})
          => /\ event'[w] = ConnectionEnd
             /\ communicating_with'[w] = NoAddr
             /\ got_preferences'[w] = NoPrefs
             /\ state'[w] = "Free"
             /\ last'[w].sent =
                   IF communicating_with[w] # NoAddr
                   THEN <<[to |-> communicating_with[w], msg |-> EndMsg]>>
                   ELSE <<>>]_vars

\* C5: if the worker is Connected, an AttemptConnection action publishes
\* ConnectionFailed(AlreadyConnected) without opening a connection and without
\* changing state or peer, and the request_chat call that issued it returns
\* AlreadyConnected.
C5_AlreadyConnected ==
    [][\A w \in Workers :
          /\ (ActionStep(w) /\ taken[w].kind = "AttemptConnection"
                            /\ state[w] = "Connected")
             => /\ event'[w] = ConnectionFailed("AlreadyConnected")
                /\ last'[w].sent = <<>>
                /\ state'[w] = state[w]
                /\ communicating_with'[w] = communicating_with[w]
          /\ (Returns(w, "request_chat") /\ CurrentCall(w).st = "Connected"
                                         /\ state[w] = "Connected")
             => result'[w] = Err("AlreadyConnected")]_vars

\* C6: if the dial made for an AttemptConnection fails, the worker publishes
\* ConnectionFailed(NotResponding), stays in Free with no peer recorded, and
\* keeps running.
C6_DialFailureReported ==
    [][\A w \in Workers :
          (ActionStep(w) /\ taken[w].kind = "AttemptConnection"
                         /\ state[w] = "Free" /\ communicating_with[w] = NoAddr
                         /\ ~Listening(taken[w].dest))
          => /\ event'[w] = ConnectionFailed("NotResponding")
             /\ state'[w] = "Free"
             /\ communicating_with'[w] = NoAddr
             /\ alive'[w] = "running"]_vars

\* C7: bytes read from an inbound connection that do not parse as an SCP
\* message are silently dropped: state, communicating_with and got_preferences
\* are unchanged, no event is published, and the event loop keeps running.
C7_ParseErrorDropped ==
    [][\A w \in Workers :
          Received(w, "Garbage")
          => /\ state'[w] = state[w]
             /\ communicating_with'[w] = communicating_with[w]
             /\ got_preferences'[w] = got_preferences[w]
             /\ event'[w] = event[w]
             /\ alive'[w] = "running"]_vars

\* a message no transition rule covers in the worker's current state
OutOfOrder(w) ==
    \/ Received(w, "Ready")
          /\ state[w] \in {"Free", "Handshake", "ConfigShared", "Connected"}
    \/ Received(w, "PreferencesShare")
          /\ state[w] \in {"Free", "Awaiting", "Connected"}
    \/ Received(w, "Start")
          /\ state[w] # "Free"
          /\ communicating_with[w] # NoAddr
          /\ Head(inbox[w]).src = communicating_with[w].ip

\* C8: a received message that matches no transition rule for the current
\* state is consumed as a no-op: the state is unchanged, no
\* ConnectionEstablished is published and the worker keeps running; Connected
\* is entered only by receiving Ready while in Awaiting.
C8_OutOfOrderIsNoOp ==
    [][\A w \in Workers :
          /\ OutOfOrder(w)
             => /\ state'[w] = state[w]
                /\ ~last'[w].finalized
                /\ alive'[w] = "running"
          /\ (state[w] # "Connected" /\ state'[w] = "Connected")
             => Received(w, "Ready") /\ state[w] = "Awaiting"]_vars

\* C9: handling AcceptConnection while a peer is set sends our
\* PreferencesShare and moves to ConfigShared; the connection is finalized
\* only if the peer's PreferencesShare has already been received, otherwise
\* the worker stays in ConfigShared and keeps running; with no peer set the
\* action has no effect.
C9_AcceptFinalizesOnlyWithPreferences ==
    [][\A w \in Workers :
          (ActionStep(w) /\ taken[w].kind = "AcceptConnection")
          => IF communicating_with[w] # NoAddr
             THEN /\ last'[w].sent = <<[to |-> communicating_with[w],
                                        msg |-> PreferencesShareMsg(w)]>>
                  /\ alive'[w] = "running"
                  /\ IF got_preferences[w] # NoPrefs
                     THEN /\ state'[w] = "Connected"
                          /\ event'[w] = ConnectionEstablished(
                                communicating_with[w].ip, got_preferences[w])
                     ELSE /\ state'[w] = "ConfigShared"
                          /\ event'[w] = event[w]
             ELSE /\ last'[w].sent = <<>>
                  /\ state'[w] = state[w]
                  /\ communicating_with'[w] = communicating_with[w]
                  /\ got_preferences'[w] = got_preferences[w]
                  /\ event'[w] = event[w]]_vars

\* C10: whenever a worker finalizes, the stored got_preferences were sent by
\* the current peer in the current negotiation, our own PreferencesShare was
\* sent to it, at least one side has sent Ready, and the stream_config of the
\* SessionConfig is the current peer's, never one left over from earlier.
C10_FinalizeAfterExchange ==
    \A w \in Workers :
        last[w].finalized
        => /\ neg[w].fresh
           /\ neg[w].shared
           /\ neg[w].ready
           /\ event[w].stream_config = Preferences(event[w].ip)

-----------------------------------------------------------------------------
\* C11: a SessionConfig is produced once per negotiation: a worker that is
\* Connected to a peer (it has published ConnectionEstablished for this
\* negotiation and no End has cleared the peer since) does not publish
\* ConnectionEstablished again in a step that keeps the same peer, whether
\* the step handles a repeated AcceptConnection, a repeated Ready or a late
\* PreferencesShare.
C11_EstablishedOncePerNegotiation ==
    [][\A w \in Workers :
          (/\ ActionStep(w) \/ ConnStep(w)
           /\ state[w] = "Connected"
           /\ communicating_with[w] # NoAddr
           /\ communicating_with'[w] = communicating_with[w])
          => ~last'[w].finalized]_vars

-----------------------------------------------------------------------------
\* C12: request_chat returns Ok(config) when it finds ConnectionEstablished
\* in the event slot, the carried error when it finds ConnectionFailed, and
\* NotResponding when its wait ends with the event slot still empty (the
\* worker being alive all along).
C12_RequestChatResult ==
    [][\A w \in Workers :
          (Returns(w, "request_chat") /\ alive[w] = "running") =>
             result'[w] =
                CASE event[w].kind = "ConnectionEstablished" -> Ok(event[w])
                  [] event[w].kind = "ConnectionFailed" -> Err(event[w].err)
                  [] event[w].kind = "None" -> Err("NotResponding")
                  [] OTHER -> result'[w]]_vars

-----------------------------------------------------------------------------
\* C13: once the dropped facade has published Terminate to a live worker,
\* the action stays in the slot until that worker takes it in handle_action,
\* and taking it is how the worker leaves its loop: no step overwrites or
\* clears the Terminate, and the worker does not stop in any other way while
\* the Terminate is waiting.
C13_TerminateConsumed ==
    [][\A w \in Workers :
          /\ (alive[w] = "running" /\ action[w] = Terminate) =>
                \/ action'[w] = Terminate /\ alive'[w] = "running"
                \/ /\ TakeStep(w)
                   /\ action'[w] = NoAction /\ taken'[w] = Terminate
                   /\ alive'[w] = "running"
          /\ (alive[w] = "running" /\ taken[w] = Terminate) =>
                \/ taken'[w] = Terminate /\ alive'[w] = "running"
                \/ ActionStep(w) /\ alive'[w] = "terminated"]_vars

-----------------------------------------------------------------------------
\* C14: codec round trip: when a message built by SCPMessage::new (any
\* command, any body, newlines and the HEADER and END patterns included) has
\* been serialized by as_bytes and the bytes deserialized, the result is Ok
\* with the message's command and exactly its body.
C14_RoundTrip ==
    (message.kind = "msg" /\ wire # <<>> /\ parsed # NoParse)
       => parsed = ParseOk(message.command, message.body)

C14_Witness ==
    /\ message = SCPMessage(SimpleMessage, SCP_END \o <<Newline>> \o SCP_END)
    /\ wire # <<>>
    /\ parsed.kind = "Ok"

-----------------------------------------------------------------------------
\* C15: an input that starts with HEADER, ends with END and has fewer than
\* two bytes between the two (none at all in particular) is answered with
\* Err(MissingCommand): no panic and no other error.
C15_MissingCommand ==
    (/\ parsed # NoParse
     /\ starts_with(wire, SCP_HEADER)
     /\ ends_with(wire, SCP_END)
     /\ Len(wire) >= Len(SCP_HEADER) + Len(SCP_END)
     /\ Len(wire) < Len(SCP_HEADER) + C_LEN + Len(SCP_END))
       => parsed = ParseErr("MissingCommand")

-----------------------------------------------------------------------------
\* the input has the form HEADER, two command bytes, body, 0x0A, END
WellFramed(raw) ==
    /\ Len(raw) >= Len(SCP_HEADER) + C_LEN + 1 + Len(SCP_END)
    /\ starts_with(raw, SCP_HEADER)
    /\ ends_with(raw, SCP_END)
    /\ raw[Len(raw) - Len(SCP_END)] = Newline

\* the two command bytes of a framed input, read as a little-endian u16
CommandIndex(raw) ==
    raw[Len(SCP_HEADER) + 1] + 256 * raw[Len(SCP_HEADER) + 2]

\* C16: a well-framed input whose command bytes, read as a little-endian
\* u16, are no index of the command enum is answered with Err(BadStructure),
\* and no Ok result carries a command outside the enum.
C16_OutOfRangeIsBadStructure ==
    /\ (parsed # NoParse /\ WellFramed(wire) /\ CommandIndex(wire) \notin SCPCommand)
          => parsed = ParseErr("BadStructure")
    /\ parsed.kind = "Ok" => parsed.command \in SCPCommand

-----------------------------------------------------------------------------
\* a well-framed input with an empty body region (HEADER, two command bytes,
\* newline, END) whose command is in marked is answered with Err(MissingBody)
EmptyBodyMissing(marked) ==
    \A c \in marked :
        (parsed # NoParse
         /\ wire = SCP_HEADER \o <<c, 0>> \o <<Newline>> \o SCP_END)
           => parsed = ParseErr("MissingBody")

\* C17, as stated: deserialize answers Err(MissingBody) for every well-framed
\* input with an empty body region whose command the specification marks as
\* requiring a body (Start, KeyShare, SimpleMessage; its PreferencesShare is
\* no variant of SCPCommand).
C17_MissingBodyAsMarkedInSpec == EmptyBodyMissing({Start, KeyShare, SimpleMessage})

\* C17, amended: deserialize answers Err(MissingBody) for every well-framed
\* input with an empty body region whose command has requires_body() true
\* (KeyShare, SimpleMessage).
C17_MissingBody == EmptyBodyMissing({KeyShare, SimpleMessage})

C17_Witness ==
    /\ wire = SCP_HEADER \o <<KeyShare, 0>> \o <<Newline>> \o SCP_END
    /\ parsed.kind = "Err"

-----------------------------------------------------------------------------
\* C18: deserialize answers Ok only for inputs of the exact form HEADER,
\* command, body, 0x0A, END, the Ok carrying that command and body; an input
\* not starting with HEADER gives BadStructure, one with the header but not
\* ending with END gives MissingEnd, and one with header, command and END
\* whose byte before END is not 0x0A or is absent gives BadStructure.
C18_OkOnlyForExactForm ==
    parsed # NoParse =>
       /\ ~starts_with(wire, SCP_HEADER) => parsed = ParseErr("BadStructure")
       /\ (starts_with(wire, SCP_HEADER) /\ ~ends_with(wire, SCP_END))
             => parsed = ParseErr("MissingEnd")
       /\ (/\ starts_with(wire, SCP_HEADER)
           /\ ends_with(wire, SCP_END)
           /\ Len(wire) >= Len(SCP_HEADER) + C_LEN + Len(SCP_END)
           /\ ~WellFramed(wire))
             => parsed = ParseErr("BadStructure")
       /\ parsed.kind = "Ok" =>
             wire = SCP_HEADER \o <<parsed.command % 256, parsed.command \div 256>>
                    \o parsed.body \o <<Newline>> \o SCP_END

-----------------------------------------------------------------------------
\* SCPMessage::new rejects an empty body for every command in marked: it
\* panics, nothing is serialized, and so every serialized message of such a
\* command has a body
EmptyBodyRejected(marked) ==
    \A c \in marked :
        /\ (message.kind # "none" /\ message.command = c /\ message.body = <<>>)
              => (message.kind = "panic" /\ wire = <<>>)
        /\ (message.kind = "msg" /\ message.command = c /\ wire # <<>>)
              => message.body # <<>>

\* C19, as stated: building a message of a command that the specification
\* marks as requiring a body (Start, KeyShare, SimpleMessage; its
\* PreferencesShare is no variant of SCPCommand) with an empty body is
\* rejected and produces no bytes.
C19_MarkedInSpec == EmptyBodyRejected({Start, KeyShare, SimpleMessage})

\* C19, amended: building a message of a command for which requires_body()
\* is true (KeyShare, SimpleMessage) with an empty body is rejected and
\* produces no bytes, so every serialized message of such a command has a
\* non-empty body.
C19_MarkedInCode == EmptyBodyRejected({KeyShare, SimpleMessage})

C19_Witness ==
    /\ message.kind = "panic"
    /\ message.command = KeyShare
    /\ message.body = <<>>

-----------------------------------------------------------------------------
\* the datagrams given to a new builder are fragments 1..k in order, of at
\* most BufferLen bytes in all, then possibly the terminator
HappyPath == fed.in_order /\ Len(fed.concat) <= BufferLen

\* C20, as stated: after fragments (data_1,1), ..., (data_k,k) in order and
\* the terminator get_nal_unit returns exactly concat(data_1..data_k), and
\* before the terminator it returns None.
C20_HappyPath ==
    HappyPath =>
       /\ ~nal.panicked
       /\ get_nal_unit(nal) = IF fed.term THEN Some(fed.concat) ELSE None

\* C20, amended: the same, when every fragment but the last carries at least
\* one byte of data.
C20_HappyPathWithData ==
    (HappyPath /\ ~fed.hole) =>
       /\ ~nal.panicked
       /\ get_nal_unit(nal) = IF fed.term THEN Some(fed.concat) ELSE None

C20_Witness ==
    /\ fed.in_order /\ fed.term /\ ~fed.hole
    /\ fed.k >= 2
    /\ Len(fed.concat) >= 3
    /\ get_nal_unit(nal) = Some(fed.concat)

-----------------------------------------------------------------------------
-----------------------------------------------------------------------------
(* Reading a step of the stream: the receiver took the oldest datagram. *)
Delivers == udp # <<>> /\ rx'.n = rx.n + 1

(* C22: when the builder is failed, the next delivered fragment with the   *)
(* identifier 1 leaves it not finished, not failed, and holding exactly    *)
(* that fragment's data from offset 0, whichever datagrams were lost.      *)
C22_RestartOnFirstFragment ==
    [][(Delivers /\ nal.failed /\ Head(udp).ident = 1) =>
          LET data == chunks(sent_units[Head(udp).unit], MaxData)[1]
          IN  /\ ~nal'.finished /\ ~nal'.failed
              /\ nal'.end_idx = Len(data)
              /\ SubSeq(nal'.nal_unit_buffer, 1, Len(data)) = data]_vars

(* C23: whenever the builder is finished and not failed, the bytes it      *)
(* returns are one whole NAL unit of the sender.                           *)
C23_ReturnsOneSentUnit ==
    (~nal.panicked /\ nal.finished /\ ~nal.failed) =>
        \E u \in 1..Len(sent_units) : get_nal_unit(nal) = Some(sent_units[u])

-----------------------------------------------------------------------------
(* Reading a step of the outgoing worker *)

\* the worker sent datagrams
Sends == Len(udp') > Len(udp)

\* the worker finished the SSIGNAL_CONNECT arm after socket.connect returned Ok
ConnectSucceeds ==
    /\ ctx.pc = "connect" /\ socket_connect(signal_data)
    /\ ctx'.pc = "reset" /\ ctx'.alive = "running"

\* data datagrams of a unit of length L, and datagrams of the units before unit j
DataDatagrams(L) == (L + MaxData - 1) \div MaxData
RECURSIVE DatagramsBefore(_, _)
DatagramsBefore(units, j) ==
    IF j = 1 THEN 0
    ELSE DatagramsBefore(units, j - 1) + DataDatagrams(Len(units[j - 1])) + 1
Min(a, b) == IF a < b THEN a ELSE b

(* C24: while no datagram has been taken from the network, the datagrams   *)
(* sent are, unit after unit, ceil(L / MaxData) data datagrams, the i-th   *)
(* carrying the unit's bytes (i-1)*MaxData+1 .. min(i*MaxData, L) followed *)
(* by i as four little-endian bytes, and then one FRAME_END; no data       *)
(* datagram is longer than MaxData + 4.                                    *)
C24_Fragmentation ==
    (rx.n = 0 /\ rx.lost = {}) =>
        /\ Len(udp) = DatagramsBefore(sent_units, Len(sent_units) + 1)
        /\ \A j \in 1..Len(sent_units) :
              LET unit == sent_units[j]
                  L == Len(unit)
                  at == DatagramsBefore(sent_units, j)
              IN  /\ \A i \in 1..DataDatagrams(L) :
                        /\ udp[at + i].bytes =
                              SubSeq(unit, (i - 1) * MaxData + 1, Min(i * MaxData, L))
                                \o <<i % 256, (i \div 256) % 256, 0, 0>>
                        /\ Len(udp[at + i].bytes) <= MaxData + 4
                  /\ udp[at + DataDatagrams(L) + 1].bytes = FRAME_END

\* two units sent, the first in two fragments of different lengths
C24_Witness ==
    /\ rx.n = 0 /\ rx.lost = {}
    /\ Len(sent_units) = 2
    /\ Len(sent_units[1]) > MaxData /\ Len(sent_units[1]) < 2 * MaxData
    /\ Len(udp) >= 5

(* C25: datagrams are sent only by a worker whose streaming and addr_bound *)
(* are true, and never between the processing of a PAUSE or DISCONNECT and *)
(* that of a later RESUME with addr_bound true or a later successful       *)
(* CONNECT.                                                                *)
C25_SendsOnlyWhenStreaming ==
    [][Sends => (ctx.streaming /\ ctx.addr_bound /\ ~outgoing.halted)]_vars

\* datagrams sent after a halt was lifted, and the worker halted again
C25_Witness ==
    /\ outgoing.restarted
    /\ outgoing.halted /\ ctx.addr_bound
    /\ udp # <<>>

(* C26: after a CONNECT has been processed no datagram is sent before a    *)
(* RESUME has been processed.                                              *)
C26_PausedAfterConnect ==
    [][Sends => outgoing.unpaused]_vars

(* C27: once the controls have been dropped the worker eventually leaves   *)
(* its loop.                                                               *)
C27_DropTerminates ==
    (ctl.state = "dropped") ~> (ctx.alive # "running")

(* C28: force_intra_frame is invoked once in a step that processes a       *)
(* CONNECT with success and in no other step, and the first datagrams sent *)
(* after a successful CONNECT are of a frame encoded with the forcing on.  *)
C28_KeyframePerConnect ==
    [][/\ ConnectSucceeds => ctx'.keyframes = ctx.keyframes + 1
       /\ ~ConnectSucceeds => ctx'.keyframes = ctx.keyframes
       /\ (Sends /\ outgoing.fresh) => ctx.stream.force]_vars

\* two CONNECTs processed with success, datagrams sent after the second
C28_Witness ==
    /\ outgoing.connects = 2 /\ ctx.keyframes = 2
    /\ ~outgoing.fresh
    /\ udp # <<>>

(* C30: the worker is never inside socket.connect while it holds the mutex *)
(* of the destination address.                                             *)
C30_NoLockAcrossSocketCall ==
    ~(ctx.alive = "running" /\ ctx.pc = "connect" /\ lock = "worker")

(* C29: while the incoming worker runs, is_receiving() is not true more    *)
(* than CONNECTION_TIMEOUT + 1 seconds after the last datagram was         *)
(* received (or, without one, after the worker connected).                 *)
C29_LivenessTimeout ==
    (inw.alive = "running" /\ conn_status) => clock.quiet <= CONNECTION_TIMEOUT + 1

-----------------------------------------------------------------------------
\* the number of the conditions of a set that hold
HowMany(conditions) == Cardinality({i \in DOMAIN conditions : conditions[i]})

C32_StaysInsideBuffer ==
    /\ ~(nal.panicked /\ ~nal.underflow)
    /\ ~nal.panicked => (nal.last_idx = nal.end_idx /\ nal.end_idx <= BufferLen)

(* C33: ident - 1 - last_packet is never evaluated with a result below     *)
(* zero.                                                                   *)
C33_NoUnderflow ==
    ~nal.underflow

(* C34: when get_nal_unit has returned a unit and the next datagram        *)
(* received is a terminator, get_nal_unit does not return a unit again.    *)
C34_DecodedAtMostOnce ==
    [][(Delivers /\ get_nal_unit(nal).some /\ Head(udp).ident = 0)
          => ~get_nal_unit(nal').some]_vars

(* C35: no call of connect() aborts its caller.                            *)
C35_ConnectNeverPanics ==
    ctl.state # "panicked"

(* C36: when the last call on the incoming controls is refuse(),           *)
(* is_receiving() becomes false; when it is accept(addr) with an address   *)
(* the socket can connect to, is_receiving() becomes true (unless the      *)
(* controls are dropped or the worker has stopped).                        *)
LastCall(name) ==
    in_ctl.last = name /\ in_ctl.calls = MaxCtl /\ in_ctl.state = "live"
C36_LastSignalProcessed ==
    /\ LastCall("refuse") ~>
          (~conn_status \/ in_ctl.state = "dropped" \/ inw.alive # "running")
    /\ (LastCall("accept") /\ socket_connect(in_data)) ~>
          (conn_status \/ in_ctl.state = "dropped" \/ inw.alive # "running")

-----------------------------------------------------------------------------
(* C37: a call of request_chat or accept_incoming_connection returns an    *)
(* event only after the worker has taken the action the call published:   *)
(* the event it returns was not in the slot before the worker saw the     *)
(* call.                                                                   *)
ReturnsEvent(w) ==
    \/ Returns(w, "request_chat") /\ event[w].kind # "None"
    \/ Returns(w, "accept") /\ event[w].kind \in {"ConnectionEstablished", "ConnectionFailed"}
C37_ReturnedEventAnswersCall ==
    [][\A w \in Workers : ReturnsEvent(w) => action[w] = NoAction]_vars

-----------------------------------------------------------------------------
(* C39: a running worker whose state is not Free has communicating_with    *)
(* set.                                                                    *)
C39_PeerSetOutsideFree ==
    \A w \in Workers :
        (alive[w] = "running" /\ state[w] # "Free") => communicating_with[w] # NoAddr

-----------------------------------------------------------------------------
(* C38: when A and B have each handled the other's Start while in          *)
(* Handshake (and nobody else has dialled them), neither worker panics,    *)
(* and once nothing is left to handle they are both Connected to each     *)
(* other, or both without a peer with ConnectionEnd published.             *)
Crossing ==
    /\ last["A"].crossed = "B"
    /\ last["B"].crossed = "A"
    /\ injected = 0
ConnectedTo(w, v) ==
    state[w] = "Connected" /\ communicating_with[w].ip = v
Ended(w) ==
    communicating_with[w] = NoAddr /\ event[w] = ConnectionEnd
C38_CrossingStartsSettle ==
    Crossing =>
       /\ \A w \in Workers : alive[w] # "panicked"
       /\ Quiescent =>
             \/ ConnectedTo("A", "B") /\ ConnectedTo("B", "A")
             \/ Ended("A") /\ Ended("B")

-----------------------------------------------------------------------------
(* C40: the facade and the thread of spawn_handler_thread never hold one   *)
(* slot's mutex each while waiting for the other's, and a thread that      *)
(* waits for a mutex gets it (or gets the poison error).                   *)
Holds(thread, m) == mx.holder[m] = thread
Wants(thread, m) ==
    CASE thread = "facade" /\ m = "action" -> mx.at = "store"
      [] thread = "facade" /\ m = "event" -> mx.at = "lock" /\ mx.polls < MaxPolls
      [] thread = "worker" /\ m = "action" -> mx.w = "lock_action"
      [] thread = "worker" /\ m = "event" -> mx.w \in {"publish", "publish_incoming"}
OppositeOrder ==
    \E m1, m2 \in Mutexes :
        /\ m1 # m2
        /\ Holds("facade", m1) /\ Wants("facade", m2)
        /\ Holds("worker", m2) /\ Wants("worker", m1)
C40_NoDeadlockOnSlots ==
    /\ []~OppositeOrder
    /\ \A thread \in {"facade", "worker"} : \A m \in Mutexes :
          Wants(thread, m) ~> ~Wants(thread, m)

====
